---- MODULE Spec2Model ----
(***************************************************************************)
(* Lobby / voting session synchronisation protocol of the voting app.      *)
(* The remote store is the Firebase realtime database reached over REST;  *)
(* every client is one device, signed in anonymously (one uid per device). *)
(* A request that fails in transport is seen by the caller as null/false. *)
(***************************************************************************)
EXTENDS Integers, Sequences, FiniteSets, TLC

\* ------------------------------------------------------------- universe
Users == {"u1", "u2"}
NoName == "-"
NoUser == "-"

\* Number of push keys the store hands out under lobbies/.
MaxSessions == 2
Sessions == 1..MaxSessions
NoSession == 0

\* Requests that fail in transport in one behaviour.
MaxFailures == 1

\* Handlers of one identity that have passed the existence check of
\* handleSubmit and not yet written.
MaxPending == 2

\* Reads of one hook that are in flight together.
MaxPolls == 2

\* Calls of the REST helpers that are followed on their own.
MaxRequests == 2

\* generateLobbyCode: a 6-digit number 100000..999999, rendered as a string.
CodeMin == 100000
CodeSpan == 900000
\* The draws of Math.random() that are followed: the two ends of the range.
GeneratedCodes == {CodeMin, CodeMin + CodeSpan - 1}

Null == [null |-> TRUE]

Statuses == <<"waiting", "voting", "results", "ranking">>

RECURSIVE IndexOf(_, _, _)
IndexOf(seq, x, i) ==
    IF i > Len(seq) THEN 0
    ELSE IF seq[i] = x THEN i ELSE IndexOf(seq, x, i + 1)

\* Position of a status in waiting < voting < results < ranking.
StatusRank(st) == IndexOf(Statuses, st, 1)

\* --------------------------------------------------------------- state
VARIABLES
    \* the remote store
    lobbies,        \* lobbies/{id}: Null or a Session
    lobbyCodes,     \* lobbyCodes/{code}: session id or NoSession
    participants,   \* participants/{id}/{uid}: Null or a Participant
    votes,          \* votes/{id}/{uid}: Null or a Vote
    userHistory,    \* userHistory/{uid}: set of session ids
    nextKey,        \* the next push key of the store
    \* one device per user
    screen,         \* the mounted screen
    voteId,         \* the voteId route parameter of the mounted screen
    lobbyData,      \* usePolledData(lobbies/{voteId}).data
    participantsData, \* usePolledData(participants/{voteId}).data
    votesData,      \* usePolledData(votes/{voteId}).data
    hasNavigated,   \* waiting room: hasNavigated.current
    wasInLobby,     \* waiting room: wasInLobby.current
    isStarting,     \* waiting room: isStarting
    alert,          \* the alert on display
    history,        \* history screen: the fetched items, by session
    participantNames, \* voting screen: the dropdown options
    isSubmitting,   \* voting screen: isSubmitting
    votesArray,     \* results screen: number of votes fetched on mount, -1 while loading
    currentVoteIndex, \* results screen: currentVoteIndex
    pendingNav,     \* a router.replace/push issued and not yet carried out
    joinOp,         \* handleJoin in flight
    deleteOp,       \* history screen: the confirmed delete in flight
    submitOps,      \* handleSubmit calls between their read and their write
    result,         \* what the last create/join/submit reported
    seenSelf,       \* the mounted waiting room has polled a heldData holding the uid
    polls,          \* per user: the reads of lobbies/{voteId} in flight
    namePrompt,     \* waiting room: the name-change alert or modal on show
    shownNameChangePromptKeys, \* per device: lobbies whose prompt was shown
    heldData,       \* the stored data a screen holds when it derives what it shows
    rendered,       \* what the screens derived from it, call after call
    requests,       \* fetch calls made by the helpers called on their own
    returned,       \* what the last such call returned
    failures        \* requests that have failed in transport so far

storeVars == <<lobbies, lobbyCodes, participants, votes, userHistory, nextKey>>
\* the state of the mounted screen of every device
screenVars == <<screen, voteId, lobbyData, participantsData, votesData,
                hasNavigated, wasInLobby, isStarting, participantNames,
                isSubmitting, votesArray, currentVoteIndex, pendingNav,
                seenSelf>>
derivedVars == <<heldData, rendered>>
helperVars == <<requests, returned>>

promptVars == <<namePrompt, shownNameChangePromptKeys>>

vars == <<lobbies, lobbyCodes, participants, votes, userHistory, nextKey,
          screen, voteId, lobbyData, participantsData, votesData,
          hasNavigated, wasInLobby, isStarting, alert, history,
          participantNames, isSubmitting, votesArray, currentVoteIndex,
          pendingNav, joinOp, deleteOp, submitOps, result, seenSelf,
          polls, promptVars, derivedVars, helperVars, failures>>

\* ------------------------------------------------------ the remote store
\* GET: the stored value, or null when the request fails.
readViaRest(value, ok) == IF ok THEN value ELSE Null

\* A subtree with no children reads as JSON null.
Subtree(f) == IF \A u \in Users : f[u] = Null THEN Null ELSE f

Keys(snapshot) ==
    IF snapshot = Null THEN {} ELSE {u \in Users : snapshot[u] # Null}

Session(creator, name, code) ==
    [creatorId |-> creator, creatorName |-> name, status |-> "waiting",
     code |-> code]

Participant(name, creator) ==
    [name |-> name, joinedAt |-> 0, isCreator |-> creator,
     nameChangeRequested |-> FALSE]

\* PATCH lobbies/{id} {status}: merges the field; creates the node if absent.
PatchStatus(lobby, st) ==
    IF lobby = Null
    THEN [creatorId |-> NoUser, creatorName |-> NoName, status |-> st,
          code |-> 0]
    ELSE [lobby EXCEPT !.status = st]


\* ----------------------------------------------------------- navigation
Screens == {"home", "waitingRoom", "voting", "votingWaiting", "results",
            "ranking"}
NoNav == [to |-> "none", id |-> NoSession]
NoPrompt == [kind |-> "none", lobbyId |-> NoSession]
NoAlert == [kind |-> "none", lobbyId |-> NoSession]
IdleJoin == [pc |-> "idle", lobbyId |-> NoSession, name |-> NoName]
IdleDelete == [pc |-> "idle", lobbyId |-> NoSession, code |-> 0,
               pending |-> {}, applied |-> <<>>]

\* The user can act: no navigation under way, no handler of the input
\* screen in flight, no modal alert on display.
Idle(u) ==
    /\ pendingNav[u] = NoNav
    /\ joinOp[u].pc = "idle"
    /\ alert[u].kind = "none"

\* router.replace / router.push: the call is issued; the screen it names is
\* mounted by NavComplete.
Route(u, to, id) ==
    pendingNav' = [pendingNav EXCEPT ![u] = [to |-> to, id |-> id]]

\* The screen named by the last router call mounts: fresh component state;
\* the replaced screen unmounts and its handlers in flight lose their screen.
NavComplete(u) ==
    /\ pendingNav[u] # NoNav
    /\ screen' = [screen EXCEPT ![u] = pendingNav[u].to]
    /\ voteId' = [voteId EXCEPT ![u] = pendingNav[u].id]
    /\ lobbyData' = [lobbyData EXCEPT ![u] = Null]
    /\ participantsData' = [participantsData EXCEPT ![u] = Null]
    /\ votesData' = [votesData EXCEPT ![u] = Null]
    /\ hasNavigated' = [hasNavigated EXCEPT ![u] = FALSE]
    /\ wasInLobby' = [wasInLobby EXCEPT ![u] = FALSE]
    /\ isStarting' = [isStarting EXCEPT ![u] = FALSE]
    /\ participantNames' = [participantNames EXCEPT ![u] = {}]
    /\ isSubmitting' = [isSubmitting EXCEPT ![u] = FALSE]
    /\ votesArray' = [votesArray EXCEPT ![u] = -1]
    /\ currentVoteIndex' = [currentVoteIndex EXCEPT ![u] = 0]
    /\ pendingNav' = [pendingNav EXCEPT ![u] = NoNav]
    /\ seenSelf' = [seenSelf EXCEPT ![u] = FALSE]
    /\ submitOps' = [submitOps EXCEPT
                       ![u] = {[op EXCEPT !.mounted = FALSE] : op \in @}]
    /\ namePrompt' = [namePrompt EXCEPT
                        ![u] = IF @.kind = "modal" THEN NoPrompt ELSE @]
    /\ polls' = [polls EXCEPT
                   ![u] = {[op EXCEPT !.mounted = FALSE] : op \in @}]
    /\ UNCHANGED <<storeVars, alert, history, joinOp, deleteOp, result,
                   shownNameChangePromptKeys, derivedVars, helperVars>>

\* Variant of handleCreate that leaves the code index entry out.
HandleCreateNoIndex(u, name, code, okPush, okCode, okPart, okHist) ==
    /\ screen[u] = "home"
    /\ Idle(u)
    /\ nextKey <= MaxSessions
    /\ IF ~okPush
       THEN /\ result' = [result EXCEPT ![u] = "CreateFailed"]
            /\ UNCHANGED <<storeVars, pendingNav>>
       ELSE /\ lobbies' = [lobbies EXCEPT ![nextKey] = Session(u, name, code)]
            /\ nextKey' = nextKey + 1
            /\ lobbyCodes' = lobbyCodes
            /\ participants' = IF okPart
                               THEN [participants EXCEPT
                                       ![nextKey][u] = Participant(name, TRUE)]
                               ELSE participants
            /\ userHistory' = IF okHist
                              THEN [userHistory EXCEPT ![u] = @ \cup {nextKey}]
                              ELSE userHistory
            /\ UNCHANGED votes
            /\ Route(u, "waitingRoom", nextKey)
            /\ result' = [result EXCEPT ![u] = "Created"]
    /\ UNCHANGED <<screen, voteId, lobbyData, participantsData, votesData,
                   hasNavigated, wasInLobby, isStarting, alert, history,
                   participantNames, isSubmitting, votesArray,
                   currentVoteIndex, joinOp, deleteOp, submitOps, seenSelf,
                   polls, promptVars, derivedVars, helperVars>>

\* Variant of handleCreate that reports an error, and stays, when the code
\* index write fails.
HandleCreateIndexChecked(u, name, code, okPush, okCode, okPart, okHist) ==
    /\ screen[u] = "home"
    /\ Idle(u)
    /\ nextKey <= MaxSessions
    /\ IF ~okPush
       THEN /\ result' = [result EXCEPT ![u] = "CreateFailed"]
            /\ UNCHANGED <<storeVars, pendingNav>>
       ELSE /\ lobbies' = [lobbies EXCEPT ![nextKey] = Session(u, name, code)]
            /\ nextKey' = nextKey + 1
            /\ lobbyCodes' = IF okCode
                             THEN [lobbyCodes EXCEPT ![code] = nextKey]
                             ELSE lobbyCodes
            /\ participants' = IF okPart
                               THEN [participants EXCEPT
                                       ![nextKey][u] = Participant(name, TRUE)]
                               ELSE participants
            /\ userHistory' = IF okHist
                              THEN [userHistory EXCEPT ![u] = @ \cup {nextKey}]
                              ELSE userHistory
            /\ UNCHANGED votes
            /\ IF okCode
               THEN /\ Route(u, "waitingRoom", nextKey)
                    /\ result' = [result EXCEPT ![u] = "Created"]
               ELSE /\ result' = [result EXCEPT ![u] = "CreateFailed"]
                    /\ UNCHANGED pendingNav
    /\ UNCHANGED <<screen, voteId, lobbyData, participantsData, votesData,
                   hasNavigated, wasInLobby, isStarting, alert, history,
                   participantNames, isSubmitting, votesArray,
                   currentVoteIndex, joinOp, deleteOp, submitOps, seenSelf,
                   polls, promptVars, derivedVars, helperVars>>

\* ------------------------------------------------------------ userInput
\* handleCreate: push the Session, then three writes whose results are not
\* looked at, then router.push to the waiting room.
HandleCreate(u, name, code, okPush, okCode, okPart, okHist) ==
    /\ screen[u] = "home"
    /\ Idle(u)
    /\ nextKey <= MaxSessions
    /\ IF ~okPush
       THEN /\ result' = [result EXCEPT ![u] = "CreateFailed"]
            /\ UNCHANGED <<storeVars, pendingNav>>
       ELSE /\ lobbies' = [lobbies EXCEPT ![nextKey] = Session(u, name, code)]
            /\ nextKey' = nextKey + 1
            /\ lobbyCodes' = IF okCode
                             THEN [lobbyCodes EXCEPT ![code] = nextKey]
                             ELSE lobbyCodes
            /\ participants' = IF okPart
                               THEN [participants EXCEPT
                                       ![nextKey][u] = Participant(name, TRUE)]
                               ELSE participants
            /\ userHistory' = IF okHist
                              THEN [userHistory EXCEPT ![u] = @ \cup {nextKey}]
                              ELSE userHistory
            /\ UNCHANGED votes
            /\ Route(u, "waitingRoom", nextKey)
            /\ result' = [result EXCEPT ![u] = "Created"]
    /\ UNCHANGED <<screen, voteId, lobbyData, participantsData, votesData,
                   hasNavigated, wasInLobby, isStarting, alert, history,
                   participantNames, isSubmitting, votesArray,
                   currentVoteIndex, joinOp, deleteOp, submitOps, seenSelf,
                   polls, promptVars, derivedVars, helperVars>>

\* handleJoin, first read: lobbyCodes/{code}.
JoinReadCode(u, name, code, ok) ==
    /\ screen[u] = "home"
    /\ Idle(u)
    /\ LET lobbyId == IF ok THEN lobbyCodes[code] ELSE NoSession
       IN IF lobbyId = NoSession
          THEN /\ result' = [result EXCEPT ![u] = "NotFound"]
               /\ UNCHANGED joinOp
          ELSE /\ result' = [result EXCEPT ![u] = "none"]
               /\ joinOp' = [joinOp EXCEPT
                               ![u] = [pc |-> "gotCode", lobbyId |-> lobbyId,
                                       name |-> name]]
    /\ UNCHANGED <<storeVars, screenVars, alert, history, submitOps, deleteOp,
                   polls, promptVars, derivedVars, helperVars>>

\* Variant of the second read of handleJoin with the status test left out
\* (the join property must tell it from the code's).
JoinReadLobbyAnyStatus(u, ok) ==
    /\ joinOp[u].pc = "gotCode"
    /\ LET data == readViaRest(lobbies[joinOp[u].lobbyId], ok)
       IN IF data = Null
          THEN /\ result' = [result EXCEPT ![u] = "NotFound"]
               /\ joinOp' = [joinOp EXCEPT ![u] = IdleJoin]
          ELSE /\ joinOp' = [joinOp EXCEPT ![u].pc = "checked"]
               /\ UNCHANGED result
    /\ UNCHANGED <<storeVars, screenVars, alert, history, submitOps, deleteOp,
                   polls, promptVars, derivedVars, helperVars>>

\* Variant of the second read of handleJoin that goes on to the writes
\* when the session is not there.
JoinReadLobbyMissing(u, ok) ==
    /\ joinOp[u].pc = "gotCode"
    /\ LET data == readViaRest(lobbies[joinOp[u].lobbyId], ok)
       IN IF data # Null /\ data.status # "waiting"
          THEN /\ result' = [result EXCEPT ![u] = "NotAcceptingParticipants"]
               /\ joinOp' = [joinOp EXCEPT ![u] = IdleJoin]
          ELSE /\ joinOp' = [joinOp EXCEPT ![u].pc = "checked"]
               /\ UNCHANGED result
    /\ UNCHANGED <<storeVars, screenVars, alert, history, submitOps, deleteOp,
                   polls, promptVars, derivedVars, helperVars>>

\* handleJoin, second read: lobbies/{lobbyId} and the status check.
JoinReadLobby(u, ok) ==
    /\ joinOp[u].pc = "gotCode"
    /\ LET data == readViaRest(lobbies[joinOp[u].lobbyId], ok)
       IN IF data = Null
          THEN /\ result' = [result EXCEPT ![u] = "NotFound"]
               /\ joinOp' = [joinOp EXCEPT ![u] = IdleJoin]
          ELSE IF data.status # "waiting"
          THEN /\ result' = [result EXCEPT ![u] = "NotAcceptingParticipants"]
               /\ joinOp' = [joinOp EXCEPT ![u] = IdleJoin]
          ELSE /\ joinOp' = [joinOp EXCEPT ![u].pc = "checked"]
               /\ UNCHANGED result
    /\ UNCHANGED <<storeVars, screenVars, alert, history, submitOps, deleteOp,
                   polls, promptVars, derivedVars, helperVars>>

\* Variant of the writes of handleJoin that writes the User History entry
\* whether or not the Participant entry was written.
JoinWriteHistoryAnyway(u, okPart, okHist) ==
    /\ joinOp[u].pc = "checked"
    /\ joinOp' = [joinOp EXCEPT ![u] = IdleJoin]
    /\ LET id == joinOp[u].lobbyId
       IN /\ participants' =
                IF okPart
                THEN [participants EXCEPT
                        ![id][u] = Participant(joinOp[u].name, FALSE)]
                ELSE participants
          /\ userHistory' = IF okHist
                            THEN [userHistory EXCEPT ![u] = @ \cup {id}]
                            ELSE userHistory
          /\ IF okPart
             THEN /\ Route(u, "waitingRoom", id)
                  /\ result' = [result EXCEPT ![u] = "Joined"]
             ELSE /\ result' = [result EXCEPT ![u] = "JoinFailed"]
                  /\ UNCHANGED pendingNav
    /\ UNCHANGED <<lobbies, lobbyCodes, votes, nextKey, screen, voteId,
                   lobbyData, participantsData, votesData, hasNavigated,
                   wasInLobby, isStarting, alert, history, participantNames,
                   isSubmitting, votesArray, currentVoteIndex, submitOps,
                   deleteOp, seenSelf, polls, promptVars, derivedVars, helperVars>>

\* handleJoin, the writes: the Participant entry, then (only if that write
\* succeeded) the User History entry, then router.push to the waiting room.
JoinWrite(u, okPart, okHist) ==
    /\ joinOp[u].pc = "checked"
    /\ joinOp' = [joinOp EXCEPT ![u] = IdleJoin]
    /\ LET id == joinOp[u].lobbyId
       IN IF ~okPart
          THEN /\ result' = [result EXCEPT ![u] = "JoinFailed"]
               /\ UNCHANGED <<participants, userHistory, pendingNav>>
          ELSE /\ participants' =
                     [participants EXCEPT
                        ![id][u] = Participant(joinOp[u].name, FALSE)]
               /\ userHistory' = IF okHist
                                 THEN [userHistory EXCEPT ![u] = @ \cup {id}]
                                 ELSE userHistory
               /\ Route(u, "waitingRoom", id)
               /\ result' = [result EXCEPT ![u] = "Joined"]
    /\ UNCHANGED <<lobbies, lobbyCodes, votes, nextKey, screen, voteId,
                   lobbyData, participantsData, votesData, hasNavigated,
                   wasInLobby, isStarting, alert, history, participantNames,
                   isSubmitting, votesArray, currentVoteIndex, submitOps, deleteOp,
                   seenSelf,
                   polls, promptVars, derivedVars, helperVars>>


\* --------------------------------------------------------- polled data
StatusOf(data) == IF data = Null THEN "undefined" ELSE data.status

\* const isCreator = user && lobbyData && user.uid === lobbyData.creatorId
IsCreatorOf(u, data) == data # Null /\ data.creatorId = u
isCreator(u) == IsCreatorOf(u, lobbyData[u])

\* usePolledData, fetchData: the hook's data after a read returned `value`
\* (null when the read failed).
PolledData(previous, value) == value

\* Waiting room, status effect: router.replace('/voting') is called.
StatusNavFires(u, data) ==
    /\ StatusOf(data) = "voting"
    /\ voteId[u] # NoSession
    /\ ~hasNavigated[u]

\* Waiting room, removal effect, with hasNavigated.current = hn, the
\* participants data pd and isCreator = creator: the user is in the list.
RemovalMarks(u, hn, pd, creator) ==
    /\ ~hn
    /\ ~creator
    /\ u \in Keys(pd)

\* Variant of the removal effect with the "was I already present" test left
\* out (the removal property must tell it from the code's).
RemovalFiresUntracked(u, hn, pd, creator) ==
    /\ ~hn
    /\ ~creator
    /\ u \notin Keys(pd)
    /\ pd # Null

\* ... the 'Removed from Lobby' alert is raised.
RemovalFires(u, hn, pd, creator) ==
    /\ ~hn
    /\ ~creator
    /\ u \notin Keys(pd)
    /\ wasInLobby[u] /\ pd # Null

\* A read of lobbies/{voteId} returns `value` to a mounted screen: setData,
\* and the effects that depend on lobbyData?.status and on isCreator run.
LobbyLanded(u, value) ==
    /\ screen[u] \in {"waitingRoom", "votingWaiting", "results", "ranking"}
    /\ LET data == PolledData(lobbyData[u], value)
           statusChanged == StatusOf(data) # StatusOf(lobbyData[u])
           creatorChanged == IsCreatorOf(u, data) # isCreator(u)
           room == screen[u] = "waitingRoom"
           nav == room /\ statusChanged /\ StatusNavFires(u, data)
           hn == hasNavigated[u] \/ nav
           pd == participantsData[u]
           rerun == room /\ creatorChanged
           marks == rerun /\ RemovalMarks(u, hn, pd, IsCreatorOf(u, data))
           fires == rerun /\ RemovalFires(u, hn, pd, IsCreatorOf(u, data))
       IN /\ lobbyData' = [lobbyData EXCEPT ![u] = data]
          /\ hasNavigated' = [hasNavigated EXCEPT ![u] = hn \/ fires]
          /\ wasInLobby' = [wasInLobby EXCEPT ![u] = @ \/ marks]
          /\ alert' = IF fires
                      THEN [alert EXCEPT ![u] = [kind |-> "removed",
                                                 lobbyId |-> voteId[u]]]
                      ELSE alert
          /\ IF nav
             THEN Route(u, "voting", voteId[u])
             ELSE IF /\ statusChanged
                     /\ screen[u] = "votingWaiting"
                     /\ StatusOf(data) = "results"
             THEN Route(u, "results", voteId[u])
             ELSE IF /\ statusChanged
                     /\ screen[u] = "results"
                     /\ StatusOf(data) = "ranking"
             THEN Route(u, "ranking", voteId[u])
             ELSE UNCHANGED pendingNav
    /\ UNCHANGED <<storeVars, screen, voteId, participantsData, votesData,
                   isStarting, history, participantNames, isSubmitting,
                   votesArray, currentVoteIndex, joinOp, deleteOp, submitOps, result,
                   seenSelf,
                   promptVars, derivedVars, helperVars>>

\* A poll of lobbies/{voteId}, sent and answered in one step.
PollLobby(u, ok) ==
    /\ LobbyLanded(u, readViaRest(lobbies[voteId[u]], ok))
    /\ UNCHANGED polls

\* The interval of usePolledData fires on a mounted screen: a read of
\* lobbies/{voteId} is sent, and holds the isMounted of its effect.
PollSent(u, ok) ==
    /\ screen[u] \in {"waitingRoom", "votingWaiting", "results", "ranking"}
    /\ Cardinality(polls[u]) < MaxPolls
    /\ polls' = [polls EXCEPT
                   ![u] = @ \cup {[value |-> readViaRest(lobbies[voteId[u]], ok),
                                   mounted |-> TRUE]}]
    /\ UNCHANGED <<storeVars, screenVars, alert, history, joinOp, deleteOp,
                   submitOps, result, promptVars, derivedVars, helperVars>>

\* Variant of the return of a read that sets the data whether or not the
\* effect that sent it was cleaned up.
PollLandedUnguarded(u, op) ==
    /\ op \in polls[u]
    /\ polls' = [polls EXCEPT ![u] = @ \ {op}]
    /\ LobbyLanded(u, op.value)

\* fetchData after its await: setData only if (isMounted).
PollLanded(u, op) ==
    /\ op \in polls[u]
    /\ polls' = [polls EXCEPT ![u] = @ \ {op}]
    /\ IF op.mounted
       THEN LobbyLanded(u, op.value)
       ELSE UNCHANGED <<storeVars, screenVars, alert, history, joinOp,
                        deleteOp, submitOps, result, promptVars, derivedVars, helperVars>>

\* The name-change effect without the test of shownNameChangePromptKeys.
NameChangeFiresEveryPoll(u, pd, creator) ==
    /\ pd # Null
    /\ voteId[u] # NoSession
    /\ ~creator
    /\ pd[u] # Null
    /\ pd[u].nameChangeRequested

\* The name-change effect: the own entry read has nameChangeRequested, the
\* user is not the creator, and the prompt of this lobby is not marked shown.
NameChangeFires(u, pd, creator) ==
    /\ pd # Null
    /\ voteId[u] # NoSession
    /\ ~creator
    /\ pd[u] # Null
    /\ pd[u].nameChangeRequested
    /\ voteId[u] \notin shownNameChangePromptKeys[u]

\* A poll of participants/{voteId} returns to the mounted waiting room; the
\* removal effect and the name-change effect run on the new data.
PollParticipants(u, ok) ==
    /\ screen[u] = "waitingRoom"
    /\ LET pd == PolledData(participantsData[u],
                            readViaRest(Subtree(participants[voteId[u]]), ok))
           marks == RemovalMarks(u, hasNavigated[u], pd, isCreator(u))
           fires == RemovalFires(u, hasNavigated[u], pd, isCreator(u))
           asks == NameChangeFires(u, pd, isCreator(u))
       IN /\ participantsData' = [participantsData EXCEPT ![u] = pd]
          /\ seenSelf' = [seenSelf EXCEPT ![u] = @ \/ u \in Keys(pd)]
          /\ wasInLobby' = [wasInLobby EXCEPT ![u] = @ \/ marks]
          /\ hasNavigated' = [hasNavigated EXCEPT ![u] = @ \/ fires]
          /\ alert' = IF fires
                      THEN [alert EXCEPT ![u] = [kind |-> "removed",
                                                 lobbyId |-> voteId[u]]]
                      ELSE alert
          /\ shownNameChangePromptKeys' =
               IF asks
               THEN [shownNameChangePromptKeys EXCEPT
                       ![u] = @ \cup {voteId[u]}]
               ELSE shownNameChangePromptKeys
          /\ namePrompt' = IF asks
                           THEN [namePrompt EXCEPT
                                   ![u] = [kind |-> "alert",
                                           lobbyId |-> voteId[u]]]
                           ELSE namePrompt
    /\ UNCHANGED <<storeVars, screen, voteId, lobbyData, votesData,
                   isStarting, history, participantNames, isSubmitting,
                   votesArray, currentVoteIndex, pendingNav, joinOp, deleteOp,
                   submitOps, result,
                   polls, derivedVars, helperVars>>

\* 'Removed from Lobby', OK: delete the own User History entry, go home.
RemovedAlertOk(u, ok) ==
    /\ alert[u].kind = "removed"
    /\ alert' = [alert EXCEPT ![u] = NoAlert]
    /\ userHistory' = IF ok /\ alert[u].lobbyId # NoSession
                      THEN [userHistory EXCEPT ![u] = @ \ {alert[u].lobbyId}]
                      ELSE userHistory
    /\ Route(u, "home", NoSession)
    /\ UNCHANGED <<lobbies, lobbyCodes, participants, votes, nextKey, screen,
                   voteId, lobbyData, participantsData, votesData,
                   hasNavigated, wasInLobby, isStarting, history,
                   participantNames, isSubmitting, votesArray,
                   currentVoteIndex, joinOp, deleteOp, submitOps, result, seenSelf,
                   polls, promptVars, derivedVars, helperVars>>


\* --------------------------------------------------- creator's controls
\* PATCH lobbies/{id} {status: st}; a failed request changes nothing.
updateStatus(id, st, ok) ==
    lobbies' = IF ok THEN [lobbies EXCEPT ![id] = PatchStatus(@, st)]
               ELSE lobbies

\* 'start voting' that also replaces the route itself, as 'Go to results'
\* does.
handleStartVotingAndGo(u, ok) ==
    /\ screen[u] = "waitingRoom"
    /\ Idle(u)
    /\ isCreator(u)
    /\ ~isStarting[u]
    /\ updateStatus(voteId[u], "voting", ok)
    /\ isStarting' = [isStarting EXCEPT ![u] = ok]
    /\ Route(u, "voting", voteId[u])
    /\ UNCHANGED <<lobbyCodes, participants, votes, userHistory, nextKey,
                   screen, voteId, lobbyData, participantsData, votesData,
                   hasNavigated, wasInLobby, alert, history,
                   participantNames, isSubmitting, votesArray,
                   currentVoteIndex, joinOp, deleteOp, submitOps, result,
                   seenSelf,
                   polls, promptVars, derivedVars, helperVars>>

\* 'start voting' whose PATCH the server applied and whose response did not
\* come back: fetch throws, updateViaRest returns false, isStarting is reset.
StartVotingUnacknowledged(u) ==
    /\ screen[u] = "waitingRoom"
    /\ Idle(u)
    /\ isCreator(u)
    /\ ~isStarting[u]
    /\ updateStatus(voteId[u], "voting", TRUE)
    /\ UNCHANGED <<lobbyCodes, participants, votes, userHistory, nextKey,
                   screenVars, alert, history, joinOp, deleteOp, submitOps,
                   result, polls, promptVars, derivedVars, helperVars>>

\* Waiting room, 'start voting' (rendered for the creator, disabled while
\* isStarting): navigation is left to the status effect.
handleStartVoting(u, ok) ==
    /\ screen[u] = "waitingRoom"
    /\ Idle(u)
    /\ isCreator(u)
    /\ ~isStarting[u]
    /\ updateStatus(voteId[u], "voting", ok)
    /\ isStarting' = [isStarting EXCEPT ![u] = ok]
    /\ UNCHANGED <<lobbyCodes, participants, votes, userHistory, nextKey,
                   screen, voteId, lobbyData, participantsData, votesData,
                   hasNavigated, wasInLobby, alert, history,
                   participantNames, isSubmitting, votesArray,
                   currentVoteIndex, pendingNav, joinOp, deleteOp, submitOps, result,
                   seenSelf,
                   polls, promptVars, derivedVars, helperVars>>

\* Waiting room, a participant row pressed by the creator, 'Remove from Lobby'.
RemoveFromLobby(u, target, ok) ==
    /\ screen[u] = "waitingRoom"
    /\ Idle(u)
    /\ isCreator(u)
    /\ target \in Keys(participantsData[u])
    /\ target # lobbyData[u].creatorId
    /\ participantsData[u][target].name # NoName
    /\ participants' = IF ok
                       THEN [participants EXCEPT ![voteId[u]][target] = Null]
                       ELSE participants
    /\ UNCHANGED <<lobbies, lobbyCodes, votes, userHistory, nextKey,
                   screenVars, alert, history, joinOp, deleteOp, submitOps, result,
                   polls, promptVars, derivedVars, helperVars>>

\* PATCH of a participant entry: the fields given are merged into the
\* entry, and make an entry of their own where there is none (its name is
\* then NoName, its joinedAt 0, its isCreator FALSE: the fields are absent).
PatchFlag(entry, flag) ==
    IF entry = Null
    THEN [name |-> NoName, joinedAt |-> 0, isCreator |-> FALSE,
          nameChangeRequested |-> flag]
    ELSE [entry EXCEPT !.nameChangeRequested = flag]

PatchName(entry, name) ==
    IF entry = Null
    THEN [name |-> name, joinedAt |-> 0, isCreator |-> FALSE,
          nameChangeRequested |-> FALSE]
    ELSE [entry EXCEPT !.name = name, !.nameChangeRequested = FALSE]

\* Waiting room, a participant row pressed by the creator, 'Request Name
\* Change'.
RequestNameChange(u, target, ok) ==
    /\ screen[u] = "waitingRoom"
    /\ Idle(u)
    /\ isCreator(u)
    /\ target \in Keys(participantsData[u])
    /\ target # lobbyData[u].creatorId
    /\ participantsData[u][target].name # NoName
    /\ participants' =
          IF ok
          THEN [participants EXCEPT
                  ![voteId[u]][target] = PatchFlag(@, TRUE)]
          ELSE participants
    /\ UNCHANGED <<lobbies, lobbyCodes, votes, userHistory, nextKey,
                   screenVars, alert, history, joinOp, deleteOp, submitOps,
                   result, polls, promptVars, derivedVars, helperVars>>

\* 'Name Change Requested', 'Exit Lobby': two deletes, then home.
NameExitLobby(u, okParticipant, okHistory) ==
    /\ namePrompt[u].kind = "alert"
    /\ shownNameChangePromptKeys' =
          [shownNameChangePromptKeys EXCEPT ![u] = @ \ {namePrompt[u].lobbyId}]
    /\ participants' =
          IF okParticipant
          THEN [participants EXCEPT ![namePrompt[u].lobbyId][u] = Null]
          ELSE participants
    /\ userHistory' =
          IF okHistory
          THEN [userHistory EXCEPT ![u] = @ \ {namePrompt[u].lobbyId}]
          ELSE userHistory
    /\ namePrompt' = [namePrompt EXCEPT ![u] = NoPrompt]
    /\ Route(u, "home", NoSession)
    /\ UNCHANGED <<lobbies, lobbyCodes, votes, nextKey, screen, voteId,
                   lobbyData, participantsData, votesData, hasNavigated,
                   wasInLobby, isStarting, alert, history, participantNames,
                   isSubmitting, votesArray, currentVoteIndex, joinOp,
                   deleteOp, submitOps, result, seenSelf, polls, derivedVars, helperVars>>

\* 'Name Change Requested', 'Change Name': the modal opens, when the
\* waiting room that raised the alert is still mounted.
NameChangePressed(u) ==
    /\ namePrompt[u].kind = "alert"
    /\ namePrompt' =
          [namePrompt EXCEPT
             ![u] = IF screen[u] = "waitingRoom"
                       /\ voteId[u] = namePrompt[u].lobbyId
                    THEN [@ EXCEPT !.kind = "modal"]
                    ELSE NoPrompt]
    /\ UNCHANGED <<storeVars, screenVars, alert, history, joinOp, deleteOp,
                   submitOps, result, polls, shownNameChangePromptKeys, derivedVars, helperVars>>

\* handleSubmitNewName with a name that is not the name last read.
handleSubmitNewName(u, newName, ok) ==
    /\ namePrompt[u].kind = "modal"
    /\ voteId[u] # NoSession
    /\ newName # (IF participantsData[u] = Null \/ participantsData[u][u] = Null
                  THEN NoName
                  ELSE participantsData[u][u].name)
    /\ participants' =
          IF ok
          THEN [participants EXCEPT ![voteId[u]][u] = PatchName(@, newName)]
          ELSE participants
    /\ namePrompt' = IF ok
                     THEN [namePrompt EXCEPT ![u] = NoPrompt]
                     ELSE namePrompt
    /\ shownNameChangePromptKeys' =
          IF ok
          THEN [shownNameChangePromptKeys EXCEPT ![u] = @ \ {voteId[u]}]
          ELSE shownNameChangePromptKeys
    /\ UNCHANGED <<lobbies, lobbyCodes, votes, userHistory, nextKey,
                   screenVars, alert, history, joinOp, deleteOp, submitOps,
                   result, polls, derivedVars, helperVars>>

\* handleCancelNameChange: the modal closes and the mark is dropped.
handleCancelNameChange(u) ==
    /\ namePrompt[u].kind = "modal"
    /\ namePrompt' = [namePrompt EXCEPT ![u] = NoPrompt]
    /\ shownNameChangePromptKeys' =
          [shownNameChangePromptKeys EXCEPT ![u] = @ \ {voteId[u]}]
    /\ UNCHANGED <<storeVars, screenVars, alert, history, joinOp, deleteOp,
                   submitOps, result, polls, derivedVars, helperVars>>

\* The counts of the voting-waiting screen.
totalParticipants(participantsDataHeld) ==
    IF participantsDataHeld = Null
    THEN 0
    ELSE Cardinality(DOMAIN participantsDataHeld)

votesSubmitted(votesDataHeld) ==
    IF votesDataHeld = Null THEN 0 ELSE Cardinality(DOMAIN votesDataHeld)

votesRemaining(participantsDataHeld, votesDataHeld) ==
    totalParticipants(participantsDataHeld) - votesSubmitted(votesDataHeld)

\* The 'Everyone has voted!' branch of the voting-waiting screen.
everyoneHasVoted(participantsDataHeld, votesDataHeld) ==
    votesRemaining(participantsDataHeld, votesDataHeld) = 0

\* The JSON object a subtree read gives: its keys are the children present.
Object(f) == IF f = Null THEN Null ELSE [k \in Keys(f) |-> f[k]]

\* Voting-waiting screen: the read of participants/{voteId} returns.
PollWaitingParticipants(u, ok) ==
    /\ screen[u] = "votingWaiting"
    /\ participantsData' =
          [participantsData EXCEPT
             ![u] = PolledData(@, readViaRest(Subtree(participants[voteId[u]]),
                                              ok))]
    /\ UNCHANGED <<storeVars, screen, voteId, lobbyData, votesData,
                   hasNavigated, wasInLobby, isStarting, alert, history,
                   participantNames, isSubmitting, votesArray,
                   currentVoteIndex, pendingNav, joinOp, deleteOp, submitOps,
                   result, seenSelf, polls, promptVars, derivedVars, helperVars>>

\* Voting-waiting screen: the read of votes/{voteId} returns.
PollVotes(u, ok) ==
    /\ screen[u] = "votingWaiting"
    /\ votesData' =
          [votesData EXCEPT
             ![u] = PolledData(@, readViaRest(Subtree(votes[voteId[u]]), ok))]
    /\ UNCHANGED <<storeVars, screen, voteId, lobbyData, participantsData,
                   hasNavigated, wasInLobby, isStarting, alert, history,
                   participantNames, isSubmitting, votesArray,
                   currentVoteIndex, pendingNav, joinOp, deleteOp, submitOps,
                   result, seenSelf, polls, promptVars, derivedVars, helperVars>>

\* 'Go to results' rendered only in the 'Everyone has voted!' branch.
handleGoToResultsOnceAllVoted(u, ok) ==
    /\ screen[u] = "votingWaiting"
    /\ Idle(u)
    /\ isCreator(u)
    /\ votesRemaining(Object(participantsData[u]), Object(votesData[u])) = 0
    /\ updateStatus(voteId[u], "results", ok)
    /\ Route(u, "results", voteId[u])
    /\ UNCHANGED <<lobbyCodes, participants, votes, userHistory, nextKey,
                   screen, voteId, lobbyData, participantsData, votesData,
                   hasNavigated, wasInLobby, isStarting, alert, history,
                   participantNames, isSubmitting, votesArray,
                   currentVoteIndex, joinOp, deleteOp, submitOps, result, seenSelf,
                   polls, promptVars, derivedVars, helperVars>>

\* Voting-waiting screen, 'Go to results' (rendered for the creator): the
\* update's result is not looked at.
handleGoToResults(u, ok) ==
    /\ screen[u] = "votingWaiting"
    /\ Idle(u)
    /\ isCreator(u)
    /\ updateStatus(voteId[u], "results", ok)
    /\ Route(u, "results", voteId[u])
    /\ UNCHANGED <<lobbyCodes, participants, votes, userHistory, nextKey,
                   screen, voteId, lobbyData, participantsData, votesData,
                   hasNavigated, wasInLobby, isStarting, alert, history,
                   participantNames, isSubmitting, votesArray,
                   currentVoteIndex, joinOp, deleteOp, submitOps, result, seenSelf,
                   polls, promptVars, derivedVars, helperVars>>

\* Results screen: the votes are fetched once, on mount.
ResultsFetchVotes(u, ok) ==
    /\ screen[u] = "results"
    /\ votesArray[u] = -1
    /\ votesArray' =
         [votesArray EXCEPT
            ![u] = Cardinality(Keys(readViaRest(Subtree(votes[voteId[u]]),
                                                ok)))]
    /\ UNCHANGED <<storeVars, screen, voteId, lobbyData, participantsData,
                   votesData, hasNavigated, wasInLobby, isStarting, alert,
                   history, participantNames, isSubmitting, currentVoteIndex,
                   pendingNav, joinOp, deleteOp, submitOps, result, seenSelf,
                   polls, promptVars, derivedVars, helperVars>>

hasNextVote(u) == currentVoteIndex[u] < votesArray[u] - 1

\* Results screen, creator view (shown once loaded).
CreatorView(u) ==
    /\ screen[u] = "results"
    /\ Idle(u)
    /\ votesArray[u] >= 0
    /\ isCreator(u)

handleNextVote(u) ==
    /\ CreatorView(u)
    /\ hasNextVote(u)
    /\ currentVoteIndex' = [currentVoteIndex EXCEPT ![u] = @ + 1]
    /\ UNCHANGED <<storeVars, screen, voteId, lobbyData, participantsData,
                   votesData, hasNavigated, wasInLobby, isStarting, alert,
                   history, participantNames, isSubmitting, votesArray,
                   pendingNav, joinOp, deleteOp, submitOps, result, seenSelf,
                   polls, promptVars, derivedVars, helperVars>>

handlePreviousVote(u) ==
    /\ CreatorView(u)
    /\ currentVoteIndex[u] > 0
    /\ currentVoteIndex' = [currentVoteIndex EXCEPT ![u] = @ - 1]
    /\ UNCHANGED <<storeVars, screen, voteId, lobbyData, participantsData,
                   votesData, hasNavigated, wasInLobby, isStarting, alert,
                   history, participantNames, isSubmitting, votesArray,
                   pendingNav, joinOp, deleteOp, submitOps, result, seenSelf,
                   polls, promptVars, derivedVars, helperVars>>

\* 'Go to ranking' shown beside 'Next vote' rather than in its place.
handleGoToRankingAnyVote(u, ok) ==
    /\ CreatorView(u)
    /\ updateStatus(voteId[u], "ranking", ok)
    /\ Route(u, "ranking", voteId[u])
    /\ UNCHANGED <<lobbyCodes, participants, votes, userHistory, nextKey,
                   screen, voteId, lobbyData, participantsData, votesData,
                   hasNavigated, wasInLobby, isStarting, alert, history,
                   participantNames, isSubmitting, votesArray,
                   currentVoteIndex, joinOp, deleteOp, submitOps, result, seenSelf,
                   polls, promptVars, derivedVars, helperVars>>

\* Results screen, 'Go to ranking' (shown in place of 'Next vote').
handleGoToRanking(u, ok) ==
    /\ CreatorView(u)
    /\ ~hasNextVote(u)
    /\ updateStatus(voteId[u], "ranking", ok)
    /\ Route(u, "ranking", voteId[u])
    /\ UNCHANGED <<lobbyCodes, participants, votes, userHistory, nextKey,
                   screen, voteId, lobbyData, participantsData, votesData,
                   hasNavigated, wasInLobby, isStarting, alert, history,
                   participantNames, isSubmitting, votesArray,
                   currentVoteIndex, joinOp, deleteOp, submitOps, result, seenSelf,
                   polls, promptVars, derivedVars, helperVars>>

\* -------------------------------------------------------------- history
\* fetchHistory: userHistory/{uid}, then lobbies/{id} of every entry; an
\* entry whose lobby read yields null is left out.
fetchHistory(u, okHistory, okLobbies) ==
    /\ screen[u] = "home"
    /\ Idle(u)
    /\ history' =
         [history EXCEPT
            ![u] = [s \in Sessions |->
                      IF okHistory /\ s \in userHistory[u] /\ s \in okLobbies
                      THEN lobbies[s] ELSE Null]]
    /\ UNCHANGED <<storeVars, screenVars, alert, joinOp, deleteOp, submitOps, result,
                   polls, promptVars, derivedVars, helperVars>>

\* handleCardPress: the screen is chosen from the status in the fetched item.
CardTarget(status) ==
    CASE status = "waiting" -> "waitingRoom"
      [] status = "voting" -> "voting"
      [] status = "results" -> "results"
      [] OTHER -> "ranking"

handleCardPress(u, s) ==
    /\ screen[u] = "home"
    /\ Idle(u)
    /\ history[u][s] # Null
    /\ Route(u, CardTarget(history[u][s].status), s)
    /\ UNCHANGED <<storeVars, screen, voteId, lobbyData, participantsData,
                   votesData, hasNavigated, wasInLobby, isStarting, alert,
                   history, participantNames, isSubmitting, votesArray,
                   currentVoteIndex, joinOp, deleteOp, submitOps, result, seenSelf,
                   polls, promptVars, derivedVars, helperVars>>

\* A handleDelete that issues the deletes of the session, its code and the
\* history entry without deleting the participants and the votes first.
handleDeleteSessionFirst(u, s) ==
    /\ screen[u] = "home"
    /\ Idle(u)
    /\ deleteOp[u].pc = "idle"
    /\ history[u][s] # Null
    /\ history[u][s].creatorId = u
    /\ deleteOp' = [deleteOp EXCEPT
                      ![u] = [pc |-> "together", lobbyId |-> s,
                              code |-> history[u][s].code,
                              pending |-> {"lobbies", "lobbyCodes",
                                           "userHistory"},
                              applied |-> <<>>]]
    /\ UNCHANGED <<storeVars, screenVars, alert, history, joinOp, submitOps,
                   result,
                   polls, promptVars, derivedVars, helperVars>>

\* handleDelete, 'Delete' confirmed on a card of a session the user created
\* (the button is rendered for the creator, and not while a delete runs).
handleDelete(u, s) ==
    /\ screen[u] = "home"
    /\ Idle(u)
    /\ deleteOp[u].pc = "idle"
    /\ history[u][s] # Null
    /\ history[u][s].creatorId = u
    /\ deleteOp' = [deleteOp EXCEPT
                      ![u] = [pc |-> "participants", lobbyId |-> s,
                              code |-> history[u][s].code, pending |-> {},
                              applied |-> <<>>]]
    /\ UNCHANGED <<storeVars, screenVars, alert, history, joinOp, submitOps,
                   result,
                   polls, promptVars, derivedVars, helperVars>>

\* The paths of the three deletes issued together by Promise.all.
TogetherPaths == {"lobbies", "lobbyCodes", "userHistory"}

\* A delete of the participants that gives the whole deletion up when it
\* fails.
DeleteParticipantsStopping(u, ok) ==
    /\ deleteOp[u].pc = "participants"
    /\ participants' = IF ok
                       THEN [participants EXCEPT
                               ![deleteOp[u].lobbyId] = [x \in Users |-> Null]]
                       ELSE participants
    /\ deleteOp' = [deleteOp EXCEPT
                      ![u] = IF ok
                             THEN [@ EXCEPT !.pc = "votes",
                                            !.applied = Append(@, "participants")]
                             ELSE IdleDelete]
    /\ UNCHANGED <<lobbies, lobbyCodes, votes, userHistory, nextKey,
                   screenVars, alert, history, joinOp, submitOps, result,
                   polls, promptVars, derivedVars, helperVars>>

\* await deleteViaRest(participants/{lobbyId}): the result is not looked at.
DeleteParticipants(u, ok) ==
    /\ deleteOp[u].pc = "participants"
    /\ participants' = IF ok
                       THEN [participants EXCEPT
                               ![deleteOp[u].lobbyId] = [x \in Users |-> Null]]
                       ELSE participants
    /\ deleteOp' = [deleteOp EXCEPT
                      ![u].pc = "votes",
                      ![u].applied = Append(@, "participants")]
    /\ UNCHANGED <<lobbies, lobbyCodes, votes, userHistory, nextKey,
                   screenVars, alert, history, joinOp, submitOps, result,
                   polls, promptVars, derivedVars, helperVars>>

\* await deleteViaRest(votes/{lobbyId}); then the three deletes are issued.
DeleteVotes(u, ok) ==
    /\ deleteOp[u].pc = "votes"
    /\ votes' = IF ok
                THEN [votes EXCEPT ![deleteOp[u].lobbyId] = [x \in Users |-> Null]]
                ELSE votes
    /\ deleteOp' = [deleteOp EXCEPT
                      ![u].pc = "together",
                      ![u].pending = TogetherPaths,
                      ![u].applied = Append(@, "votes")]
    /\ UNCHANGED <<lobbies, lobbyCodes, participants, userHistory, nextKey,
                   screenVars, alert, history, joinOp, submitOps, result,
                   polls, promptVars, derivedVars, helperVars>>

\* One of the deletes of Promise.all reaches the store.
DeleteTogether(u, path, ok) ==
    /\ deleteOp[u].pc = "together"
    /\ path \in deleteOp[u].pending
    /\ lobbies' = IF ok /\ path = "lobbies"
                  THEN [lobbies EXCEPT ![deleteOp[u].lobbyId] = Null]
                  ELSE lobbies
    /\ lobbyCodes' = IF ok /\ path = "lobbyCodes"
                     THEN [lobbyCodes EXCEPT ![deleteOp[u].code] = NoSession]
                     ELSE lobbyCodes
    /\ userHistory' = IF ok /\ path = "userHistory"
                      THEN [userHistory EXCEPT ![u] = @ \ {deleteOp[u].lobbyId}]
                      ELSE userHistory
    /\ deleteOp' = [deleteOp EXCEPT
                      ![u].pending = @ \ {path},
                      ![u].applied = Append(@, path)]
    /\ UNCHANGED <<participants, votes, nextKey, screenVars, alert, history,
                   joinOp, submitOps, result,
                   polls, promptVars, derivedVars, helperVars>>

\* Promise.all has resolved: the item leaves the list, whatever the results.
DeleteSettled(u) ==
    /\ deleteOp[u].pc = "together"
    /\ deleteOp[u].pending = {}
    /\ history' = [history EXCEPT ![u][deleteOp[u].lobbyId] = Null]
    /\ deleteOp' = [deleteOp EXCEPT ![u] = IdleDelete]
    /\ UNCHANGED <<storeVars, screenVars, alert, joinOp, submitOps, result,
                   polls, promptVars, derivedVars, helperVars>>

\* An exit that also takes the user's entry out of the session it leaves.
handleExitAndLeave(u) ==
    /\ screen[u] # "home"
    /\ Idle(u)
    /\ Route(u, "home", NoSession)
    /\ participants' = IF voteId[u] \in Sessions
                       THEN [participants EXCEPT ![voteId[u]][u] = Null]
                       ELSE participants
    /\ UNCHANGED <<lobbies, lobbyCodes, votes, userHistory, nextKey,
                   screen, voteId, lobbyData, participantsData,
                   votesData, hasNavigated, wasInLobby, isStarting, alert,
                   history, participantNames, isSubmitting, votesArray,
                   currentVoteIndex, joinOp, deleteOp, submitOps, result, seenSelf,
                   polls, promptVars, derivedVars, helperVars>>

\* 'exit vote', the close buttons, 'finish', and the back gesture of the
\* stack: the history screen is shown again with the items it had fetched.
handleExit(u) ==
    /\ screen[u] # "home"
    /\ Idle(u)
    /\ Route(u, "home", NoSession)
    /\ UNCHANGED <<storeVars, screen, voteId, lobbyData, participantsData,
                   votesData, hasNavigated, wasInLobby, isStarting, alert,
                   history, participantNames, isSubmitting, votesArray,
                   currentVoteIndex, joinOp, deleteOp, submitOps, result, seenSelf,
                   polls, promptVars, derivedVars, helperVars>>

\* --------------------------------------------------------------- voting
\* Voting screen, on mount: the dropdown options are the participants' names.
fetchParticipants(u, ok) ==
    /\ screen[u] = "voting"
    /\ participantNames[u] = {}
    /\ LET p == readViaRest(Subtree(participants[voteId[u]]), ok)
       IN /\ p # Null
          /\ participantNames' =
               [participantNames EXCEPT
                  ![u] = {p[x].name : x \in Keys(p)} \ {NoName}]
    /\ UNCHANGED <<storeVars, screen, voteId, lobbyData, participantsData,
                   votesData, hasNavigated, wasInLobby, isStarting, alert,
                   history, isSubmitting, votesArray, currentVoteIndex,
                   pendingNav, joinOp, deleteOp, submitOps, result, seenSelf,
                   polls, promptVars, derivedVars, helperVars>>

\* What the user types as a comment on the voting screen.
Comments == {"gg", "meh"}

Vote(mvp, mvpComment, loser, loserComment) ==
    [mvpName |-> mvp, mvpComment |-> mvpComment, loserName |-> loser,
     loserComment |-> loserComment]

\* The existence check of handleSubmit says the user has voted.
ExistingVote(existing) == existing # Null

\* handleSubmit up to its first await's return: the existence check.
SubmitCheck(u, mvp, mvpComment, loser, loserComment, ok) ==
    /\ screen[u] = "voting"
    /\ Idle(u)
    /\ ~isSubmitting[u]
    /\ mvp \in participantNames[u]
    /\ loser \in participantNames[u]
    /\ Cardinality(submitOps[u]) < MaxPending
    /\ IF ExistingVote(readViaRest(votes[voteId[u]][u], ok))
       THEN /\ result' = [result EXCEPT ![u] = "AlreadyVoted"]
            /\ Route(u, "votingWaiting", voteId[u])
            /\ UNCHANGED <<submitOps, isSubmitting>>
       ELSE /\ submitOps' =
                 [submitOps EXCEPT
                    ![u] = @ \cup {[voteId |-> voteId[u],
                                    vote |-> Vote(mvp, mvpComment, loser,
                                                 loserComment),
                                    mounted |-> TRUE]}]
            /\ isSubmitting' = [isSubmitting EXCEPT ![u] = TRUE]
            /\ result' = [result EXCEPT ![u] = "none"]
            /\ UNCHANGED pendingNav
    /\ UNCHANGED <<storeVars, screen, voteId, lobbyData, participantsData,
                   votesData, hasNavigated, wasInLobby, isStarting, alert,
                   history, participantNames, votesArray, currentVoteIndex,
                   joinOp, deleteOp, seenSelf,
                   polls, promptVars, derivedVars, helperVars>>

\* handleSubmit from the write on: PUT votes/{voteId}/{uid}, then
\* router.replace to the voting-waiting screen, whatever screen is mounted.
SubmitWrite(u, op, ok) ==
    /\ op \in submitOps[u]
    /\ submitOps' = [submitOps EXCEPT ![u] = @ \ {op}]
    /\ isSubmitting' = IF op.mounted
                       THEN [isSubmitting EXCEPT ![u] = FALSE]
                       ELSE isSubmitting
    /\ IF ok
       THEN /\ votes' = [votes EXCEPT ![op.voteId][u] = op.vote]
            /\ Route(u, "votingWaiting", op.voteId)
            /\ result' = [result EXCEPT ![u] = "Voted"]
       ELSE /\ result' = [result EXCEPT ![u] = "SubmitFailed"]
            /\ UNCHANGED <<votes, pendingNav>>
    /\ UNCHANGED <<lobbies, lobbyCodes, participants, userHistory, nextKey,
                   screen, voteId, lobbyData, participantsData, votesData,
                   hasNavigated, wasInLobby, isStarting, alert, history,
                   participantNames, votesArray, currentVoteIndex, joinOp, deleteOp,
                   seenSelf,
                   polls, promptVars, derivedVars, helperVars>>

\* -------------------------------------------------------- the rankings
MaxVoters == 3
MaxCalls == 2

\* The keys of votes/{id} and participants/{id}, in the order the store lists
\* them.
KeyNames == <<"k1", "k2", "k3", "k4", "k5">>
VoterKeys == SubSeq(KeyNames, 1, MaxVoters)

Range(seq) == {seq[i] : i \in DOMAIN seq}

\* The names in the dropdowns: any non-empty text, "7" among them.
RankNames == {"Alice", "Bob", "Carol", "7"}

\* A property name that is a canonical array index is one, its number; any
\* other name is not (-1).
ArrayIndex(name) == IF name = "7" THEN 7 ELSE -1

\* Object.values of a stored object: the values in the order of the keys.
RECURSIVE ValuesInOrder(_, _)
ValuesInOrder(object, keys) ==
    IF keys = <<>>
    THEN <<>>
    ELSE IF Head(keys) \in DOMAIN object
         THEN <<object[Head(keys)]>> \o ValuesInOrder(object, Tail(keys))
         ELSE ValuesInOrder(object, Tail(keys))

ObjectValues(object) == ValuesInOrder(object, VoterKeys)

\* The names in the order the forEach creates their properties.
RECURSIVE FirstSeen(_)
FirstSeen(names) ==
    IF names = <<>>
    THEN <<>>
    ELSE LET before == FirstSeen(SubSeq(names, 1, Len(names) - 1))
             name == names[Len(names)]
         IN  IF name \in Range(before) THEN before ELSE Append(before, name)

PlainName(name) == ArrayIndex(name) < 0

RECURSIVE Ascending(_)
Ascending(indexNames) ==
    IF indexNames = {}
    THEN <<>>
    ELSE LET least == CHOOSE n \in indexNames :
                         \A o \in indexNames : ArrayIndex(n) <= ArrayIndex(o)
         IN  <<least>> \o Ascending(indexNames \ {least})

\* Object.entries of the counts: the array-index properties come first, in
\* ascending numeric order, then the other properties in creation order.
PropertyOrder(names) ==
    LET seen == FirstSeen(names)
    IN  Ascending({n \in Range(seen) : ~PlainName(n)})
            \o SelectSeq(seen, PlainName)

Occurrences(name, names) == Cardinality({i \in DOMAIN names : names[i] = name})

RECURSIVE InsertEntry(_, _)
InsertEntry(entry, sorted) ==
    IF sorted = <<>>
    THEN <<entry>>
    ELSE IF Head(sorted).votes >= entry.votes
         THEN <<Head(sorted)>> \o InsertEntry(entry, Tail(sorted))
         ELSE <<entry>> \o sorted

\* sort((a, b) => b.votes - a.votes): descending, and stable.
RECURSIVE SortByVotes(_)
SortByVotes(entries) ==
    IF entries = <<>>
    THEN <<>>
    ELSE InsertEntry(entries[Len(entries)],
                     SortByVotes(SubSeq(entries, 1, Len(entries) - 1)))

\* A ranking that leaves the counts as they are listed.
RankingUnsorted(names, order) ==
    [i \in DOMAIN order |->
        [name |-> order[i], votes |-> Occurrences(order[i], names)]]

\* One ranking: count the names, list the counts, sort them.
Ranking(names, order) ==
    SortByVotes([i \in DOMAIN order |->
                   [name |-> order[i], votes |-> Occurrences(order[i], names)]])

MvpNames(votesObject) ==
    LET values == ObjectValues(votesObject)
    IN  [i \in DOMAIN values |-> values[i].mvpName]

LoserNames(votesObject) ==
    LET values == ObjectValues(votesObject)
    IN  [i \in DOMAIN values |-> values[i].loserName]

Reverse(seq) == [i \in DOMAIN seq |-> seq[Len(seq) + 1 - i]]

\* A calculateRankings whose order depends on the calls made before it.
calculateRankingsByCall(votesObject) ==
    LET mvp == Ranking(MvpNames(votesObject),
                       PropertyOrder(MvpNames(votesObject)))
        loser == Ranking(LoserNames(votesObject),
                         PropertyOrder(LoserNames(votesObject)))
    IN  IF Len(rendered.rankings) = 0
        THEN [mvpRanking |-> mvp, loserRanking |-> loser]
        ELSE [mvpRanking |-> Reverse(mvp), loserRanking |-> Reverse(loser)]

calculateRankings(votesObject) ==
    [mvpRanking |-> Ranking(MvpNames(votesObject),
                            PropertyOrder(MvpNames(votesObject))),
     loserRanking |-> Ranking(LoserNames(votesObject),
                              PropertyOrder(LoserNames(votesObject)))]

\* The rankings memo of the ranking screen.
rankings(votesDataHeld) ==
    IF votesDataHeld = Null
    THEN [mvpRanking |-> <<>>, loserRanking |-> <<>>]
    ELSE calculateRankings(votesDataHeld)

NoSnapshot == [lobbyData |-> Null, participantsData |-> Null, votesData |-> Null]
NothingRendered ==
    [rankings |-> <<>>, votesRemaining |-> <<>>, participants |-> <<>>,
     winners |-> <<>>]

\* The winner of a history card: a name, or null.
Winner(name) == [name |-> name]

\* The forEach over Object.entries(counts): a later entry replaces the winner
\* only when its count is greater.
RECURSIVE StrictMax(_, _, _)
StrictMax(entries, winner, maxVotes) ==
    IF entries = <<>>
    THEN winner
    ELSE IF Head(entries).votes > maxVotes
         THEN StrictMax(Tail(entries), Winner(Head(entries).name),
                        Head(entries).votes)
         ELSE StrictMax(Tail(entries), winner, maxVotes)

\* The same loop with count >= max: the last of the tied names wins.
RECURSIVE LooseMax(_, _, _)
LooseMax(entries, winner, maxVotes) ==
    IF entries = <<>>
    THEN winner
    ELSE IF Head(entries).votes >= maxVotes
         THEN LooseMax(Tail(entries), Winner(Head(entries).name),
                       Head(entries).votes)
         ELSE LooseMax(Tail(entries), winner, maxVotes)

calculateWinnersLastTied(votesObject) ==
    [mvp |-> LooseMax(RankingUnsorted(MvpNames(votesObject),
                                      PropertyOrder(MvpNames(votesObject))),
                      Null, 0),
     loser |-> LooseMax(RankingUnsorted(LoserNames(votesObject),
                                        PropertyOrder(LoserNames(votesObject))),
                        Null, 0)]

\* calculateWinners of the history screen: count the names, then take the
\* first name of the greatest count in the order the counts are listed.
calculateWinners(votesObject) ==
    [mvp |-> StrictMax(RankingUnsorted(MvpNames(votesObject),
                                       PropertyOrder(MvpNames(votesObject))),
                       Null, 0),
     loser |-> StrictMax(RankingUnsorted(LoserNames(votesObject),
                                         PropertyOrder(LoserNames(votesObject))),
                         Null, 0)]

\* The winners of a history card.
winners(votesDataHeld) ==
    IF votesDataHeld = Null
    THEN [mvp |-> Null, loser |-> Null]
    ELSE calculateWinners(votesDataHeld)

RankVotes == {Vote(m, "gg", l, "gg") : m \in RankNames, l \in RankNames}

\* What votes/{id} can read as: null, or an object of one vote per key.
VoteSnapshots ==
    {Null} \cup UNION {[keys -> RankVotes] :
                         keys \in (SUBSET Range(VoterKeys)) \ {{}}}

\* ---------------------------------------------- the waiting-room list
MaxJoinedAt == 2

\* The list entry of a participant other than the host.
DisplayParticipant(id, participant) ==
    [id |-> id, name |-> participant.name, isCreator |-> FALSE,
     isOnline |-> TRUE,
     nameChangeRequested |-> participant.nameChangeRequested]

\* The list entry of the host; it has no nameChangeRequested.
DisplayHost(lobbyDataHeld, hostInParticipants) ==
    [id |-> lobbyDataHeld.creatorId,
     name |-> IF lobbyDataHeld.creatorName = NoName
              THEN "Host"
              ELSE lobbyDataHeld.creatorName,
     isCreator |-> TRUE, isOnline |-> hostInParticipants,
     nameChangeRequested |-> FALSE]

\* Object.entries of the participants: the keys in the order of the store.
ObjectKeys(object) == SelectSeq(VoterKeys, LAMBDA k : k \in DOMAIN object)

RECURSIVE InsertNewest(_, _, _)
InsertNewest(id, sorted, object) ==
    IF sorted = <<>>
    THEN <<id>>
    ELSE IF object[Head(sorted)].joinedAt >= object[id].joinedAt
         THEN <<Head(sorted)>> \o InsertNewest(id, Tail(sorted), object)
         ELSE <<id>> \o sorted

\* sort(([, a], [, b]) => (b?.joinedAt ?? 0) - (a?.joinedAt ?? 0)): a
\* joinedAt that is missing counts as 0.
RECURSIVE NewestFirst(_, _)
NewestFirst(ids, object) ==
    IF ids = <<>>
    THEN <<>>
    ELSE InsertNewest(ids[Len(ids)],
                      NewestFirst(SubSeq(ids, 1, Len(ids) - 1), object),
                      object)

Others(lobbyDataHeld, participantsDataHeld) ==
    SelectSeq(ObjectKeys(participantsDataHeld),
              LAMBDA id : /\ id # lobbyDataHeld.creatorId
                          /\ participantsDataHeld[id].name # NoName)

\* A list with the host first and the others as the store lists them.
DisplayParticipantsHostFirst(lobbyDataHeld, participantsDataHeld) ==
    IF lobbyDataHeld = Null
    THEN <<>>
    ELSE LET hostInParticipants ==
                 /\ participantsDataHeld # Null
                 /\ lobbyDataHeld.creatorId \in DOMAIN participantsDataHeld
             others == IF participantsDataHeld = Null
                       THEN <<>>
                       ELSE Others(lobbyDataHeld, participantsDataHeld)
         IN  <<DisplayHost(lobbyDataHeld, hostInParticipants)>>
                 \o [i \in DOMAIN others |->
                       DisplayParticipant(others[i],
                                          participantsDataHeld[others[i]])]

\* The participants memo: the others newest first, the host at the end.
DisplayParticipants(lobbyDataHeld, participantsDataHeld) ==
    IF lobbyDataHeld = Null
    THEN <<>>
    ELSE LET hostInParticipants ==
                 /\ participantsDataHeld # Null
                 /\ lobbyDataHeld.creatorId \in DOMAIN participantsDataHeld
             others == IF participantsDataHeld = Null
                       THEN <<>>
                       ELSE NewestFirst(Others(lobbyDataHeld,
                                               participantsDataHeld),
                                        participantsDataHeld)
         IN  [i \in DOMAIN others |->
                DisplayParticipant(others[i], participantsDataHeld[others[i]])]
                 \o <<DisplayHost(lobbyDataHeld, hostInParticipants)>>

\* What participants/{id} can read as: null, or an object of one entry per
\* key; an entry without a name has the name NoName, one without a joinedAt
\* the joinedAt 0.
RosterEntries ==
    [name : {NoName, "Bob", "Cy"}, joinedAt : 0..MaxJoinedAt,
     isCreator : {FALSE}, nameChangeRequested : BOOLEAN]

ParticipantSnapshots ==
    {Null} \cup UNION {[keys -> RosterEntries] :
                         keys \in (SUBSET Range(VoterKeys)) \ {{}}}

\* The waiting room evaluates its memo on the data it holds.
RosterRendered ==
    /\ Len(rendered.participants) < MaxCalls
    /\ rendered' = [rendered EXCEPT
                      !.participants =
                          Append(@, DisplayParticipants(
                                        heldData.lobbyData,
                                        heldData.participantsData))]
    /\ UNCHANGED <<helperVars, storeVars, screenVars, alert, history, joinOp, deleteOp,
                   submitOps, result, polls, promptVars, heldData, failures>>

\* The ranking screen evaluates its memo on the votes it holds.
RankingRendered ==
    /\ Len(rendered.rankings) < MaxCalls
    /\ rendered' = [rendered EXCEPT
                      !.rankings = Append(@, rankings(heldData.votesData))]
    /\ UNCHANGED <<helperVars, storeVars, screenVars, alert, history, joinOp, deleteOp,
                   submitOps, result, polls, promptVars, heldData, failures>>

\* The history screen computes the winners of a card from the votes it read.
WinnersRendered ==
    /\ Len(rendered.winners) < MaxCalls
    /\ rendered' = [rendered EXCEPT
                      !.winners = Append(@, winners(heldData.votesData))]
    /\ UNCHANGED <<helperVars, storeVars, screenVars, alert, history, joinOp, deleteOp,
                   submitOps, result, polls, promptVars, heldData, failures>>

\* The voting-waiting screen counts the votes that remain.
WaitingRendered ==
    /\ Len(rendered.votesRemaining) < MaxCalls
    /\ rendered' = [rendered EXCEPT
                      !.votesRemaining =
                          Append(@, votesRemaining(heldData.participantsData,
                                                   heldData.votesData))]
    /\ UNCHANGED <<helperVars, storeVars, screenVars, alert, history, joinOp, deleteOp,
                   submitOps, result, polls, promptVars, heldData, failures>>

\* ------------------------------------------- the votes of the results screen
MaxSubmittedAt == 2

\* A vote as votes/{id}/{key} stores it, with the Date.now() of its device.
SubmittedVote(key, submittedAt) ==
    [mvpName |-> "Alice", mvpComment |-> key, loserName |-> "Bob",
     loserComment |-> "gg", submittedAt |-> submittedAt]

\* What votes/{id} can read as on the results screen.
SubmittedSnapshots ==
    {Null} \cup
    UNION {{[k \in keys |-> SubmittedVote(k, t[k])] :
               t \in [keys -> 1..MaxSubmittedAt]} :
             keys \in (SUBSET Range(VoterKeys)) \ {{}}}

RECURSIVE InsertBySubmittedAt(_, _)
InsertBySubmittedAt(vote, sorted) ==
    IF sorted = <<>>
    THEN <<vote>>
    ELSE IF Head(sorted).submittedAt <= vote.submittedAt
         THEN <<Head(sorted)>> \o InsertBySubmittedAt(vote, Tail(sorted))
         ELSE <<vote>> \o sorted

\* sort((a, b) => a.submittedAt - b.submittedAt): stable.
RECURSIVE SortBySubmittedAt(_)
SortBySubmittedAt(values) ==
    IF values = <<>>
    THEN <<>>
    ELSE InsertBySubmittedAt(values[Len(values)],
                             SortBySubmittedAt(SubSeq(values, 1,
                                                      Len(values) - 1)))

\* The votesArray memo of the results screen.
votesArrayOf(votesDataHeld) ==
    IF votesDataHeld = Null
    THEN <<>>
    ELSE SortBySubmittedAt(ObjectValues(votesDataHeld))

\* Results screen, the fetch on mount returns the held votes: totalVotes is
\* the length of the memo.
ResultsVotesRead(u) ==
    /\ screen[u] = "results"
    /\ votesArray[u] = -1
    /\ votesArray' =
         [votesArray EXCEPT ![u] = Len(votesArrayOf(heldData.votesData))]
    /\ UNCHANGED <<storeVars, screen, voteId, lobbyData, participantsData,
                   votesData, hasNavigated, wasInLobby, isStarting, alert,
                   history, participantNames, isSubmitting, currentVoteIndex,
                   pendingNav, joinOp, deleteOp, submitOps, result, seenSelf,
                   polls, promptVars, derivedVars, helperVars>>

\* ---------------------------------------------------------- the system
Helpers == {"read", "write", "push", "update", "delete"}

NothingReturned == [helper |-> "none", currentUser |-> NoUser, value |-> Null]

\* What a helper returns: the JSON read, the {name} of a push, true or false.
Name(key) == [name |-> key]
Bool(b) == [bool |-> b]

\* The helpers with the test of auth().currentUser left out.
ViaRestUnguarded(helper, currentUser, s, ok) ==
    /\ requests < MaxRequests
    /\ helper = "push" => nextKey <= MaxSessions
    /\ requests' = requests + 1
    /\ returned' =
          [helper |-> helper, currentUser |-> currentUser,
           value |-> CASE helper = "read" -> readViaRest(lobbies[s], ok)
                       [] helper = "push" -> IF ok THEN Name(nextKey) ELSE Null
                       [] OTHER -> Bool(ok)]
    /\ lobbies' =
          CASE ok /\ helper = "push" ->
                   [lobbies EXCEPT ![nextKey] = Session(currentUser, "Alice", CodeMin)]
            [] ok /\ helper = "update" ->
                   [lobbies EXCEPT ![s] = PatchStatus(@, "voting")]
            [] ok /\ helper = "delete" -> [lobbies EXCEPT ![s] = Null]
            [] OTHER -> lobbies
    /\ nextKey' = IF ok /\ helper = "push" THEN nextKey + 1 ELSE nextKey
    /\ participants' =
          IF ok /\ helper = "write"
          THEN [participants EXCEPT ![s]["u2"] = Participant("Bob", FALSE)]
          ELSE participants
    /\ UNCHANGED <<lobbyCodes, votes, userHistory, screenVars, alert, history,
                   joinOp, deleteOp, submitOps, result, polls, promptVars,
                   derivedVars>>

\* readViaRest, writeViaRest (PUT participants/{s}/{uid}), pushViaRest (POST
\* lobbies), updateViaRest (PATCH lobbies/{s}) and deleteViaRest (DELETE
\* lobbies/{s}) called with auth().currentUser = currentUser: with no user
\* the helper returns before fetch is reached.
ViaRest(helper, currentUser, s, ok) ==
    LET sent == currentUser # NoUser
        done == sent /\ ok
    IN /\ requests < MaxRequests
       /\ helper = "push" => nextKey <= MaxSessions
       /\ requests' = IF sent THEN requests + 1 ELSE requests
       /\ returned' =
             [helper |-> helper, currentUser |-> currentUser,
              value |-> CASE helper = "read" ->
                                IF sent THEN readViaRest(lobbies[s], ok)
                                ELSE Null
                          [] helper = "push" ->
                                IF done THEN Name(nextKey) ELSE Null
                          [] OTHER -> Bool(done)]
       /\ lobbies' =
             CASE done /\ helper = "push" ->
                      [lobbies EXCEPT ![nextKey] = Session(currentUser, "Alice", CodeMin)]
               [] done /\ helper = "update" ->
                      [lobbies EXCEPT ![s] = PatchStatus(@, "voting")]
               [] done /\ helper = "delete" -> [lobbies EXCEPT ![s] = Null]
               [] OTHER -> lobbies
       /\ nextKey' = IF done /\ helper = "push" THEN nextKey + 1 ELSE nextKey
       /\ participants' =
             IF done /\ helper = "write"
             THEN [participants EXCEPT ![s]["u2"] = Participant("Bob", FALSE)]
             ELSE participants
       /\ UNCHANGED <<lobbyCodes, votes, userHistory, screenVars, alert,
                      history, joinOp, deleteOp, submitOps, result, polls,
                      promptVars, derivedVars>>

InitApp ==
    /\ lobbies = [s \in Sessions |-> Null]
    /\ lobbyCodes = [c \in GeneratedCodes |-> NoSession]
    /\ participants = [s \in Sessions |-> [u \in Users |-> Null]]
    /\ votes = [s \in Sessions |-> [u \in Users |-> Null]]
    /\ userHistory = [u \in Users |-> {}]
    /\ nextKey = 1
    /\ screen = [u \in Users |-> "home"]
    /\ voteId = [u \in Users |-> NoSession]
    /\ lobbyData = [u \in Users |-> Null]
    /\ participantsData = [u \in Users |-> Null]
    /\ votesData = [u \in Users |-> Null]
    /\ hasNavigated = [u \in Users |-> FALSE]
    /\ wasInLobby = [u \in Users |-> FALSE]
    /\ isStarting = [u \in Users |-> FALSE]
    /\ alert = [u \in Users |-> NoAlert]
    /\ history = [u \in Users |-> [s \in Sessions |-> Null]]
    /\ participantNames = [u \in Users |-> {}]
    /\ isSubmitting = [u \in Users |-> FALSE]
    /\ votesArray = [u \in Users |-> -1]
    /\ currentVoteIndex = [u \in Users |-> 0]
    /\ pendingNav = [u \in Users |-> NoNav]
    /\ joinOp = [u \in Users |-> IdleJoin]
    /\ deleteOp = [u \in Users |-> IdleDelete]
    /\ namePrompt = [u \in Users |-> NoPrompt]
    /\ polls = [u \in Users |-> {}]
    /\ requests = 0
    /\ returned = NothingReturned
    /\ shownNameChangePromptKeys = [u \in Users |-> {}]
    /\ submitOps = [u \in Users |-> {}]
    /\ result = [u \in Users |-> "none"]
    /\ seenSelf = [u \in Users |-> FALSE]
    /\ failures = 0

\* The app as started: no screen has derived anything yet.
Init ==
    /\ InitApp
    /\ heldData = NoSnapshot
    /\ rendered = NothingRendered

\* What each user types as a name on the input screen.
TypedName(u) == IF u = "u1" THEN "Alice" ELSE "Bob"

\* The requests of one step, by outcome: at most MaxFailures requests fail
\* in one behaviour.
Transport(oks) ==
    LET failed == Cardinality({i \in DOMAIN oks : ~oks[i]})
    IN /\ failures + failed <= MaxFailures
       /\ failures' = failures + failed

Create(u) ==
    \E code \in GeneratedCodes, okPush, okCode, okPart, okHist \in BOOLEAN :
        /\ okPush \/ (okCode /\ okPart /\ okHist)
        /\ HandleCreate(u, TypedName(u), code, okPush, okCode, okPart, okHist)
        /\ Transport(<<okPush, okCode, okPart, okHist>>)

JoinCode(u) ==
    \E code \in GeneratedCodes, ok \in BOOLEAN :
        JoinReadCode(u, TypedName(u), code, ok) /\ Transport(<<ok>>)

JoinLobby(u) == \E ok \in BOOLEAN : JoinReadLobby(u, ok) /\ Transport(<<ok>>)

JoinWrites(u) ==
    \E okPart, okHist \in BOOLEAN :
        /\ okPart \/ okHist
        /\ JoinWrite(u, okPart, okHist)
        /\ Transport(<<okPart, okHist>>)

Navigated(u) == NavComplete(u) /\ UNCHANGED failures

LobbyPolled(u) == \E ok \in BOOLEAN : PollLobby(u, ok) /\ Transport(<<ok>>)

ParticipantsPolled(u) ==
    \E ok \in BOOLEAN : PollParticipants(u, ok) /\ Transport(<<ok>>)

StartVoting(u) ==
    \E ok \in BOOLEAN : handleStartVoting(u, ok) /\ Transport(<<ok>>)

Remove(u) ==
    \E target \in Users, ok \in BOOLEAN :
        RemoveFromLobby(u, target, ok) /\ Transport(<<ok>>)

AlertOk(u) == \E ok \in BOOLEAN : RemovedAlertOk(u, ok) /\ Transport(<<ok>>)

GoToResults(u) ==
    \E ok \in BOOLEAN : handleGoToResults(u, ok) /\ Transport(<<ok>>)

ResultsVotes(u) ==
    \E ok \in BOOLEAN : ResultsFetchVotes(u, ok) /\ Transport(<<ok>>)

StepVotes(u) ==
    (handleNextVote(u) \/ handlePreviousVote(u)) /\ UNCHANGED failures

GoToRanking(u) ==
    \E ok \in BOOLEAN : handleGoToRanking(u, ok) /\ Transport(<<ok>>)

History(u) ==
    \E okH \in BOOLEAN, okL \in SUBSET Sessions :
        /\ okH \/ okL = Sessions
        /\ Sessions \ okL \subseteq userHistory[u]
        /\ fetchHistory(u, okH, okL)
        /\ Transport(<<okH>> \o [i \in 1..Cardinality(Sessions \ okL) |-> FALSE])

CardPress(u) ==
    \E s \in Sessions : handleCardPress(u, s) /\ UNCHANGED failures

Exit(u) == handleExit(u) /\ UNCHANGED failures

DropdownFetched(u) ==
    \E ok \in BOOLEAN : fetchParticipants(u, ok) /\ Transport(<<ok>>)

Submit(u) ==
    \/ \E mvp, loser \in participantNames[u], comment \in Comments,
          ok \in BOOLEAN :
            SubmitCheck(u, mvp, comment, loser, comment, ok) /\ Transport(<<ok>>)
    \/ \E op \in submitOps[u], ok \in BOOLEAN :
            SubmitWrite(u, op, ok) /\ Transport(<<ok>>)

WaitingParticipantsPolled(u) ==
    \E ok \in BOOLEAN : PollWaitingParticipants(u, ok) /\ Transport(<<ok>>)

VotesPolled(u) == \E ok \in BOOLEAN : PollVotes(u, ok) /\ Transport(<<ok>>)

LobbyPollSent(u) == \E ok \in BOOLEAN : PollSent(u, ok) /\ Transport(<<ok>>)

LobbyPollLanded(u) ==
    \E op \in polls[u] : PollLanded(u, op) /\ UNCHANGED failures

NewNames == {"Bob", "Rob"}

RequestName(u) ==
    \E target \in Users, ok \in BOOLEAN :
        RequestNameChange(u, target, ok) /\ Transport(<<ok>>)

ExitLobby(u) ==
    \E okParticipant, okHistory \in BOOLEAN :
        /\ NameExitLobby(u, okParticipant, okHistory)
        /\ Transport(<<okParticipant, okHistory>>)

ChangeName(u) == NameChangePressed(u) /\ UNCHANGED failures

SubmitNewName(u) ==
    \E newName \in NewNames, ok \in BOOLEAN :
        handleSubmitNewName(u, newName, ok) /\ Transport(<<ok>>)

CancelNameChange(u) == handleCancelNameChange(u) /\ UNCHANGED failures

DeletePressed(u) ==
    \E s \in Sessions : handleDelete(u, s) /\ UNCHANGED failures

DeleteStep(u) ==
    \/ \E ok \in BOOLEAN : DeleteParticipants(u, ok) /\ Transport(<<ok>>)
    \/ \E ok \in BOOLEAN : DeleteVotes(u, ok) /\ Transport(<<ok>>)
    \/ \E path \in TogetherPaths, ok \in BOOLEAN :
            DeleteTogether(u, path, ok) /\ Transport(<<ok>>)
    \/ DeleteSettled(u) /\ UNCHANGED failures

\* Creating and joining lobbies, and starting the vote.
NextLobby ==
    \E u \in Users :
        \/ Create(u)
        \/ JoinCode(u)
        \/ JoinLobby(u)
        \/ JoinWrites(u)
        \/ Navigated(u)
        \/ LobbyPolled(u)
        \/ StartVoting(u)
        \/ Exit(u)

Spec == Init /\ [][NextLobby]_vars

\* One user takes a session of their own through the phases.
Host == "u1"

CreateFirst(u) == nextKey = 1 /\ Create(u)

NextSession ==
    \/ CreateFirst(Host)
    \/ Navigated(Host)
    \/ LobbyPolled(Host)
    \/ StartVoting(Host)
    \/ DropdownFetched(Host)
    \/ Submit(Host)
    \/ GoToResults(Host)
    \/ ResultsVotes(Host)
    \/ GoToRanking(Host)
    \/ History(Host)
    \/ CardPress(Host)
    \/ Exit(Host)

SpecSession == Init /\ [][NextSession]_vars

\* The host's session with one guest in the waiting room: the polls, removal
\* by the host, and the host's way on to the results.
Guest == "u2"

NextRoom ==
    \/ CreateFirst(Host)
    \/ JoinCode(Guest)
    \/ JoinLobby(Guest)
    \/ JoinWrites(Guest)
    \/ \E u \in Users : Navigated(u)
    \/ \E u \in Users : LobbyPolled(u)
    \/ \E u \in Users : ParticipantsPolled(u)
    \/ Remove(Host)
    \/ AlertOk(Guest)
    \/ StartVoting(Host)
    \/ DropdownFetched(Host)
    \/ Submit(Host)
    \/ GoToResults(Host)

SpecRoom == Init /\ [][NextRoom]_vars

\* setInterval keeps issuing the polls of a mounted screen, and a router call
\* is carried out: a poll that succeeds and changes what the screen holds, and
\* a pending navigation, are not postponed for ever. The user's own presses
\* (the alert's OK among them) are under no such obligation.
LobbyPollOk(u) == PollLobby(u, TRUE) /\ Transport(<<TRUE>>)
ParticipantsPollOk(u) == PollParticipants(u, TRUE) /\ Transport(<<TRUE>>)

Fairness ==
    \A u \in Users :
        /\ WF_vars(LobbyPollOk(u))
        /\ WF_vars(ParticipantsPollOk(u))
        /\ WF_vars(Navigated(u))

SpecRoomLive == SpecRoom /\ Fairness

\* Host and guest through the whole flow, from the lobby to the ranking;
\* nobody is removed and nobody leaves.
NextFlow ==
    \/ CreateFirst(Host)
    \/ JoinCode(Guest)
    \/ JoinLobby(Guest)
    \/ JoinWrites(Guest)
    \/ \E u \in Users : Navigated(u)
    \/ \E u \in Users : LobbyPolled(u)
    \/ StartVoting(Host)
    \/ \E u \in Users : DropdownFetched(u)
    \/ \E u \in Users : Submit(u)
    \/ GoToResults(Host)
    \/ ResultsVotes(Host)
    \/ StepVotes(Host)
    \/ GoToRanking(Host)

SpecFlow == Init /\ [][NextFlow]_vars

\* Every poll of the session that can succeed eventually does, and every
\* navigation ends.
FlowFairness ==
    \A u \in Users :
        /\ WF_vars(LobbyPollOk(u))
        /\ WF_vars(Navigated(u))

SpecFlowLive == SpecFlow /\ FlowFairness

\* The host deletes the session from the history screen while the guest
\* joins with its code.
NextStale ==
    \/ CreateFirst(Host)
    \/ \E u \in Users : Navigated(u)
    \/ LobbyPolled(Host)
    \/ StartVoting(Host)
    \/ Exit(Host)
    \/ History(Host)
    \/ DeletePressed(Host)
    \/ DeleteStep(Host)
    \/ JoinCode(Guest)
    \/ JoinLobby(Guest)
    \/ JoinWrites(Guest)

SpecStale == Init /\ [][NextStale]_vars

\* A helper called by a device that is signed in or not.
HelperCalled ==
    \E helper \in Helpers, currentUser \in {NoUser, "u2"}, s \in Sessions,
       ok \in BOOLEAN :
        /\ currentUser = NoUser => ok
        /\ ViaRest(helper, currentUser, s, ok)
        /\ Transport(IF currentUser = NoUser THEN <<>> ELSE <<ok>>)

StartVotingLost(u) == StartVotingUnacknowledged(u) /\ Transport(<<FALSE>>)

\* The host starts the vote, again when the first answer was lost, with the
\* guest in the waiting room.
NextStatus ==
    \/ CreateFirst(Host)
    \/ JoinCode(Guest)
    \/ JoinLobby(Guest)
    \/ JoinWrites(Guest)
    \/ \E u \in Users : Navigated(u)
    \/ \E u \in Users : LobbyPolled(u)
    \/ StartVoting(Host)
    \/ StartVotingLost(Host)

SpecStatus == Init /\ [][NextStatus]_vars

\* The host waits for the votes, with a guest who may have joined.
NextWaiting ==
    \/ CreateFirst(Host)
    \/ JoinCode(Guest)
    \/ JoinLobby(Guest)
    \/ JoinWrites(Guest)
    \/ \E u \in Users : Navigated(u)
    \/ LobbyPolled(Host)
    \/ StartVoting(Host)
    \/ DropdownFetched(Host)
    \/ Submit(Host)
    \/ WaitingParticipantsPolled(Host)
    \/ VotesPolled(Host)
    \/ GoToResults(Host)

SpecWaiting == Init /\ [][NextWaiting]_vars

\* The host reads out the votes that the results screen fetched.
InitResults ==
    /\ InitApp
    /\ \E v \in SubmittedSnapshots :
          heldData = [NoSnapshot EXCEPT !.votesData = v]
    /\ rendered = NothingRendered

ResultsRead(u) == ResultsVotesRead(u) /\ UNCHANGED failures

NextResults ==
    \/ CreateFirst(Host)
    \/ Navigated(Host)
    \/ LobbyPolled(Host)
    \/ StartVoting(Host)
    \/ DropdownFetched(Host)
    \/ Submit(Host)
    \/ GoToResults(Host)
    \/ ResultsRead(Host)
    \/ StepVotes(Host)
    \/ GoToRanking(Host)

SpecResults == InitResults /\ [][NextResults]_vars

\* The guest votes in the host's session, from which the host may have
\* removed it.
NextVoting ==
    \/ CreateFirst(Host)
    \/ JoinCode(Guest)
    \/ JoinLobby(Guest)
    \/ JoinWrites(Guest)
    \/ \E u \in Users : Navigated(u)
    \/ \E u \in Users : LobbyPolled(u)
    \/ \E u \in Users : ParticipantsPolled(u)
    \/ Remove(Host)
    \/ AlertOk(Guest)
    \/ StartVoting(Host)
    \/ DropdownFetched(Guest)
    \/ Submit(Guest)

SpecVoting == Init /\ [][NextVoting]_vars

\* The same lobby, where host and guest may leave by the exit buttons.
NextExit ==
    \/ CreateFirst(Host)
    \/ JoinCode(Guest)
    \/ JoinLobby(Guest)
    \/ JoinWrites(Guest)
    \/ \E u \in Users : Navigated(u)
    \/ \E u \in Users : LobbyPolled(u)
    \/ \E u \in Users : ParticipantsPolled(u)
    \/ StartVoting(Host)
    \/ DropdownFetched(Guest)
    \/ Submit(Guest)
    \/ \E u \in Users : Exit(u)

SpecExit == Init /\ [][NextExit]_vars

\* The helpers called over the store of the host's session.
NextHelpers ==
    \/ CreateFirst(Host)
    \/ Navigated(Host)
    \/ LobbyPolled(Host)
    \/ StartVoting(Host)
    \/ HelperCalled

SpecHelpers == Init /\ [][NextHelpers]_vars

\* The host goes from screen to screen with reads of the lobby in flight.
NextPolling ==
    \/ CreateFirst(Host)
    \/ Navigated(Host)
    \/ LobbyPollSent(Host)
    \/ LobbyPollLanded(Host)
    \/ StartVoting(Host)
    \/ DropdownFetched(Host)
    \/ Submit(Host)
    \/ GoToResults(Host)

SpecPolling == Init /\ [][NextPolling]_vars

\* The host moderates the lobby the guest joins.
NextModeration ==
    \/ CreateFirst(Host)
    \/ JoinCode(Guest)
    \/ JoinLobby(Guest)
    \/ JoinWrites(Guest)
    \/ \E u \in Users : Navigated(u)
    \/ \E u \in Users : LobbyPolled(u)
    \/ \E u \in Users : ParticipantsPolled(u)
    \/ Remove(Host)
    \/ RequestName(Host)
    \/ AlertOk(Guest)
    \/ ExitLobby(Guest)
    \/ ChangeName(Guest)
    \/ SubmitNewName(Guest)
    \/ CancelNameChange(Guest)

SpecModeration == Init /\ [][NextModeration]_vars

\* The host takes a session to the vote and deletes it from the history
\* screen.
NextHistory ==
    \/ CreateFirst(Host)
    \/ Navigated(Host)
    \/ LobbyPolled(Host)
    \/ StartVoting(Host)
    \/ DropdownFetched(Host)
    \/ Submit(Host)
    \/ Exit(Host)
    \/ History(Host)
    \/ CardPress(Host)
    \/ DeletePressed(Host)
    \/ DeleteStep(Host)

SpecHistory == Init /\ [][NextHistory]_vars

\* The screens of a finished vote, on every heldData of a small vote: the
\* voters are among the participants.
InitRanking ==
    /\ InitApp
    /\ \E p \in SUBSET Range(VoterKeys), v \in VoteSnapshots :
          /\ v # Null => DOMAIN v \subseteq p
          /\ heldData = [lobbyData |-> Null,
                         participantsData |->
                             IF p = {}
                             THEN Null
                             ELSE [k \in p |-> Participant("Alice", FALSE)],
                         votesData |-> v]
    /\ rendered = NothingRendered

NextRanking ==
    \/ RankingRendered
    \/ WaitingRendered

SpecRanking == InitRanking /\ [][NextRanking]_vars

\* The ranking screen and a history card on the same votes.
NextWinners ==
    \/ RankingRendered
    \/ WinnersRendered

SpecWinners == InitRanking /\ [][NextWinners]_vars

\* The waiting room on every snapshot of a small lobby whose host has the
\* first key.
InitRoster ==
    /\ InitApp
    /\ \E l \in {Null, Session(VoterKeys[1], "Alice", CodeMin)},
          p \in ParticipantSnapshots :
          heldData = [lobbyData |-> l, participantsData |-> p,
                      votesData |-> Null]
    /\ rendered = NothingRendered

NextRoster == RosterRendered

SpecRoster == InitRoster /\ [][NextRoster]_vars

\* ------------------------------------------------------ create and join
\* The session a code leads to no longer accepts participants.
Closed(s) == s # NoSession /\ lobbies[s] # Null /\ lobbies[s].status # "waiting"

\* handleJoin of u, typing code c, gets its first read answered in this step.
CodeRead(u, c) ==
    \E ok \in BOOLEAN :
        JoinReadCode(u, TypedName(u), c, ok) /\ Transport(<<ok>>)

\* handleJoin of u gets its second read answered in this step.
LobbyRead(u) == \E ok \in BOOLEAN : JoinReadLobby(u, ok) /\ Transport(<<ok>>)

NoEntryWritten == participants' = participants /\ userHistory' = userHistory

\* C4, as stated: a join with the code of a session that is past 'waiting'
\* reports NotAcceptingParticipants and writes no entry.
C4_ClosedJoinRejected ==
    [][\A u \in Users :
         /\ \A c \in GeneratedCodes :
              (Closed(lobbyCodes[c]) /\ CodeRead(u, c))
                 => /\ joinOp'[u].pc = "gotCode"
                    /\ joinOp'[u].lobbyId = lobbyCodes[c]
                    /\ NoEntryWritten
         /\ (Closed(joinOp[u].lobbyId) /\ LobbyRead(u))
              => /\ result'[u] = "NotAcceptingParticipants"
                 /\ joinOp'[u] = IdleJoin
                 /\ NoEntryWritten
      ]_vars

\* C4, amended: such a join writes no entry and ends before its writes; it
\* reports NotAcceptingParticipants when its two reads are answered, and
\* 'Lobby not found' when one of them fails in transport.
C4_ClosedJoinNeverWrites ==
    [][\A u \in Users :
         /\ \A c \in GeneratedCodes :
              (Closed(lobbyCodes[c]) /\ CodeRead(u, c))
                 => /\ NoEntryWritten
                    /\ IF failures' = failures
                       THEN /\ joinOp'[u].pc = "gotCode"
                            /\ joinOp'[u].lobbyId = lobbyCodes[c]
                       ELSE /\ result'[u] = "NotFound"
                            /\ joinOp'[u] = IdleJoin
         /\ (Closed(joinOp[u].lobbyId) /\ LobbyRead(u))
              => /\ NoEntryWritten
                 /\ joinOp'[u] = IdleJoin
                 /\ result'[u] = IF failures' = failures
                                 THEN "NotAcceptingParticipants"
                                 ELSE "NotFound"
      ]_vars

\* A user was told the session takes no more participants, and has no entry.
C4_Witness ==
    \E u \in Users, s \in Sessions :
        /\ result[u] = "NotAcceptingParticipants"
        /\ Closed(s)
        /\ participants[s][u] = Null
        /\ s \notin userHistory[u]
        /\ joinOp[u] = IdleJoin

\* The session created last, still in 'waiting'.
JustCreated(s) ==
    /\ s = nextKey - 1
    /\ lobbies[s] # Null
    /\ lobbies[s].status = "waiting"

\* C5: a join with the code of the session just created, its own read
\* answered, resolves to that session and does not report 'Lobby not found'.
C5_CreatedCodeResolves ==
    [][\A u \in Users, s \in Sessions :
         (/\ JustCreated(s)
          /\ JoinReadCode(u, TypedName(u), lobbies[s].code, TRUE)
          /\ failures' = failures)
            => /\ result'[u] # "NotFound"
               /\ joinOp'[u].lobbyId = s
      ]_vars

\* The entries under participants/{s} with isCreator = true.
CreatorEntries(s) ==
    {u \in Users : participants[s][u] # Null /\ participants[s][u].isCreator}

\* C6: every stored session has exactly one participant entry with
\* isCreator = true, keyed by the session's creatorId (stated for the
\* behaviours in which no request has failed).
C6_OneCreatorEntry ==
    failures = 0
        => \A s \in Sessions :
             lobbies[s] # Null => CreatorEntries(s) = {lobbies[s].creatorId}

\* ------------------------------------------------------------ the phases
\* C1: under the phase-advance actions of the session's creator, from any
\* screen the creator can reach, the stored status of a session never moves
\* backwards in waiting < voting < results < ranking (stated for the
\* behaviours in which no request fails).
C1_StatusNonDecreasing ==
    [][\A s \in Sessions :
         (failures' = 0 /\ lobbies[s] # Null /\ lobbies'[s] # Null)
            => StatusRank(lobbies'[s].status) >= StatusRank(lobbies[s].status)
      ]_vars

\* ------------------------------------------------------------- the votes
\* A handleSubmit call of u passes or fails its existence check in this step.
SubmitChecked(u) ==
    \E mvp, loser \in participantNames[u], comment \in Comments,
       ok \in BOOLEAN :
        SubmitCheck(u, mvp, comment, loser, comment, ok)

\* C2: a handleSubmit call issued when the identity's vote exists reports
\* AlreadyVoted and goes on to no write (so that at most one entry, the first,
\* is ever stored for the identity).
C2_SecondSubmitRejected ==
    [][\A u \in Users :
         (/\ screen[u] = "voting"
          /\ votes[voteId[u]][u] # Null
          /\ SubmitChecked(u))
            => /\ result'[u] = "AlreadyVoted"
               /\ submitOps'[u] = submitOps[u]
               /\ votes' = votes
      ]_vars

\* C7: once a vote is stored at votes/{session}/{uid} its content is the same
\* in every later state (stated for the behaviours in which no request
\* fails).
C7_VoteImmutable ==
    [][\A s \in Sessions, u \in Users :
         (failures' = 0 /\ votes[s][u] # Null) => votes'[s][u] = votes[s][u]
      ]_vars

\* ------------------------------------------------------ the waiting room
\* The 'Removed from Lobby' alert of u is raised in this step.
AlertRaised(u) == alert[u].kind = "none" /\ alert'[u].kind = "removed"

\* C3: the removal alert is raised only by a non-creator client that has
\* seen its own uid in an earlier participants heldData and now holds a
\* heldData without it; a client never seen present shows no alert.
C3_AlertOnlyAfterPresence ==
    [][\A u \in Users :
         /\ AlertRaised(u)
              => /\ seenSelf[u]
                 /\ participantsData'[u] # Null
                 /\ u \notin Keys(participantsData'[u])
                 /\ ~isCreator(u)'
         /\ (~seenSelf'[u]) => alert'[u].kind # "removed"
      ]_vars

\* The guest, seen present before, holds a heldData without itself and is
\* shown the alert.
C3_Witness ==
    /\ alert[Guest].kind = "removed"
    /\ seenSelf[Guest]
    /\ screen[Guest] = "waitingRoom"
    /\ participants[voteId[Guest]][Guest] = Null

\* C8: a poll that fails after the hook has held a heldData leaves the
\* hook's data as it was.
C8_FailedPollKeepsData ==
    [][\A u \in Users :
         /\ (lobbyData[u] # Null /\ PollLobby(u, FALSE))
              => lobbyData'[u] = lobbyData[u]
         /\ (participantsData[u] # Null /\ PollParticipants(u, FALSE))
              => participantsData'[u] = participantsData[u]
      ]_vars

\* u sits in the waiting room of a session, nothing under way.
InRoom(u) ==
    /\ screen[u] = "waitingRoom"
    /\ pendingNav[u] = NoNav
    /\ alert[u].kind = "none"

\* C9: once the stored status is 'voting', a client in the waiting room whose
\* polls go on is taken to the voting screen (or, having been removed, is
\* shown the removal alert).
C9_RoomFollowsVoting ==
    \A u \in Users :
        (InRoom(u) /\ StatusOf(lobbies[voteId[u]]) = "voting")
            ~> \/ pendingNav[u].to = "voting"
               \/ screen[u] = "voting"
               \/ alert[u].kind = "removed"

\* C10: a non-creator in the waiting room that has seen itself present and
\* whose entry is gone is shown the removal alert, whatever else is stored
\* under participants/{session}.
C10_RemovedIsAlerted ==
    \A u \in Users :
        (/\ InRoom(u)
         /\ seenSelf[u]
         /\ lobbies[voteId[u]].creatorId # u
         /\ participants[voteId[u]][u] = Null)
            ~> alert[u].kind = "removed"

\* -------------------------------------------- deleting from the history

\* The order the deletes of one deletion are written in.
ListedOrder == <<"participants", "votes", "lobbies", "lobbyCodes", "userHistory">>

IsPrefix(a, b) == Len(a) <= Len(b) /\ \A i \in 1..Len(a) : a[i] = b[i]

SessionThere(u) ==
    deleteOp[u].pc \in {"participants", "votes"}
        => lobbies[deleteOp[u].lobbyId] # Null

\* C11, as stated: the deletes of one deletion reach the store in the order
\* participants, votes, session, code index entry, history entry, and the
\* session exists while the participants and the votes are deleted.
C11_DeletesInListedOrder ==
    \A u \in Users :
        IsPrefix(deleteOp[u].applied, ListedOrder) /\ SessionThere(u)

\* C11, amended: the participants delete comes first and the votes delete
\* second, both while the session exists; the deletes of the session, the
\* code index entry and the history entry come after them, in any order.
C11_ChildrenBeforeSession ==
    \A u \in Users :
        LET a == deleteOp[u].applied
        IN  /\ Len(a) >= 1 => a[1] = "participants"
            /\ Len(a) >= 2 => a[2] = "votes"
            /\ \A i \in 3..Len(a) : a[i] \in TogetherPaths
            /\ SessionThere(u)

C11_Witness ==
    \E u \in Users :
        /\ Len(deleteOp[u].applied) = 5
        /\ lobbies[deleteOp[u].lobbyId] = Null

FailedDelete(u) ==
    /\ deleteOp[u].pc # "idle"
    /\ deleteOp'[u] # deleteOp[u]
    /\ failures' > failures

\* C12: a delete that fails changes nothing in the store, so the deletes
\* applied before it stay applied, and the deletion goes on to the deletes
\* that follow it.
C12_FailedDeleteGoesOn ==
    [][\A u \in Users :
          FailedDelete(u)
              => /\ storeVars' = storeVars
                 /\ Len(deleteOp'[u].applied) = Len(deleteOp[u].applied) + 1
                 /\ deleteOp'[u].pc \in {"votes", "together"}
                 /\ deleteOp'[u].lobbyId = deleteOp[u].lobbyId]_vars

\* The session is gone, and a participant or a vote of it is still stored.
C12_Witness ==
    \E u \in Users :
        LET s == deleteOp[u].lobbyId
        IN  /\ deleteOp[u].pc = "together"
            /\ deleteOp[u].pending = {}
            /\ lobbies[s] = Null
            /\ \E x \in Users : participants[s][x] # Null \/ votes[s][x] # Null

\* ------------------------------------------------------------ rankings

Entry(name, count) == [name |-> name, votes |-> count]

ScenarioVotes ==
    {Vote("Bob", "gg", "Carol", "gg"), Vote("Carol", "gg", "Alice", "gg"),
     Vote("Bob", "gg", "Alice", "gg")}

\* Three participants, each with one of the three votes of the scenario.
Scenario ==
    /\ heldData.votesData # Null
    /\ heldData.participantsData # Null
    /\ DOMAIN heldData.votesData = DOMAIN heldData.participantsData
    /\ Cardinality(DOMAIN heldData.participantsData) = 3
    /\ {heldData.votesData[k] : k \in DOMAIN heldData.votesData}
          = ScenarioVotes

\* C13: on the three votes of the scenario, whichever keys they are stored
\* under, the MVP ranking is Bob 2, Carol 1, the loser ranking is Alice 2,
\* Carol 1, and no vote remains.
C13_ScenarioRankings ==
    Scenario =>
        /\ \A i \in DOMAIN rendered.rankings :
              rendered.rankings[i] =
                  [mvpRanking |-> <<Entry("Bob", 2), Entry("Carol", 1)>>,
                   loserRanking |-> <<Entry("Alice", 2), Entry("Carol", 1)>>]
        /\ \A i \in DOMAIN rendered.votesRemaining :
              rendered.votesRemaining[i] = 0

C13_Witness ==
    /\ Scenario
    /\ Len(rendered.rankings) >= 1
    /\ Len(rendered.votesRemaining) >= 1

FirstAt(name, names) ==
    CHOOSE i \in DOMAIN names :
        names[i] = name /\ \A j \in 1..(i - 1) : names[j] # name

\* r lists every distinct name of names once, with its number of
\* occurrences, by descending count, names of equal count in the order of
\* their first occurrence.
IsRankingOf(r, names) ==
    /\ {r[i].name : i \in DOMAIN r} = Range(names)
    /\ Len(r) = Cardinality(Range(names))
    /\ \A i \in DOMAIN r : r[i].votes = Occurrences(r[i].name, names)
    /\ \A i, j \in DOMAIN r :
          i < j => /\ r[i].votes >= r[j].votes
                   /\ r[i].votes = r[j].votes
                         => FirstAt(r[i].name, names) < FirstAt(r[j].name, names)

\* C14: each ranking the screen derives lists every distinct name once with
\* its count, by descending count, ties in the order the names were first
\* seen; no held votes give empty rankings.
C14_CountedSortedFirstSeen ==
    \A i \in DOMAIN rendered.rankings :
        IF heldData.votesData = Null
        THEN rendered.rankings[i] = [mvpRanking |-> <<>>, loserRanking |-> <<>>]
        ELSE /\ IsRankingOf(rendered.rankings[i].mvpRanking,
                            MvpNames(heldData.votesData))
             /\ IsRankingOf(rendered.rankings[i].loserRanking,
                            LoserNames(heldData.votesData))

C16_CodesUnique ==
    \A s, t \in Sessions :
        (s # t /\ lobbies[s] # Null /\ lobbies[t] # Null)
            => lobbies[s].code # lobbies[t].code

\* ----------------------------------------------------- waiting-room list

HeldKeys ==
    IF heldData.participantsData = Null
    THEN {}
    ELSE DOMAIN heldData.participantsData

\* The participants the list shows besides the creator.
NamedOthers ==
    {k \in HeldKeys : /\ k # heldData.lobbyData.creatorId
                      /\ heldData.participantsData[k].name # NoName}

IsRoster(list) ==
    /\ Len(list) = Cardinality(NamedOthers) + 1
    /\ list[Len(list)] =
          [id |-> heldData.lobbyData.creatorId,
           name |-> heldData.lobbyData.creatorName,
           isCreator |-> TRUE,
           isOnline |-> heldData.lobbyData.creatorId \in HeldKeys,
           nameChangeRequested |-> FALSE]
    /\ {list[i].id : i \in 1..(Len(list) - 1)} = NamedOthers
    /\ \A i \in 1..(Len(list) - 1) :
          /\ ~list[i].isCreator
          /\ list[i].name = heldData.participantsData[list[i].id].name
    /\ \A i, j \in 1..(Len(list) - 1) :
          i < j => heldData.participantsData[list[i].id].joinedAt
                      >= heldData.participantsData[list[j].id].joinedAt

FlagSet(entry) == [entry EXCEPT !.nameChangeRequested = TRUE]

\* C18: a removal by the creator deletes the entry of the target and
\* nothing else; a name-change request is made of a participant who is not
\* the creator, and sets nameChangeRequested on the entry, which keeps its
\* name, joinedAt and isCreator; the other entries, the sessions and the
\* votes stay as they are.
C18_ModerationTouchesOnlyTarget ==
    [][\A target \in Users :
          LET s == voteId[Host]
          IN  /\ RemoveFromLobby(Host, target, TRUE)
                    => /\ target # lobbies[s].creatorId
                       /\ participants' =
                             [participants EXCEPT ![s][target] = Null]
                       /\ lobbies' = lobbies /\ votes' = votes
              /\ RequestNameChange(Host, target, TRUE)
                    => /\ target # lobbies[s].creatorId
                       /\ participants[s][target] # Null
                       /\ participants' =
                             [participants EXCEPT
                                ![s][target] = FlagSet(participants[s][target])]
                       /\ lobbies' = lobbies /\ votes' = votes]_vars

Flagged(u, s) ==
    participants[s][u] # Null /\ participants[s][u].nameChangeRequested

\* The entry a participant reads as its own has the flag.
FlagRead(u) ==
    /\ participantsData'[u] # Null
    /\ participantsData'[u][u] # Null
    /\ participantsData'[u][u].nameChangeRequested

\* A participant who reads the flag on its own entry is prompted.
PromptedOnFlag ==
    [][\A u \in Users :
          (PollParticipants(u, TRUE) /\ lobbies[voteId[u]] # Null
              /\ lobbies[voteId[u]].creatorId # u /\ FlagRead(u))
              => namePrompt'[u].kind # "none"]_vars

\* A submitted name sets the name and clears the flag on the own entry; an
\* exit deletes the own entry and the own history entry.
PromptOutcomes ==
    [][\A u \in Users :
          /\ \A n \in NewNames :
                handleSubmitNewName(u, n, TRUE)
                    => /\ participants[voteId[u]][u] # Null
                       /\ participants' =
                             [participants EXCEPT
                                ![voteId[u]][u] =
                                    [participants[voteId[u]][u] EXCEPT
                                       !.name = n,
                                       !.nameChangeRequested = FALSE]]
          /\ NameExitLobby(u, TRUE, TRUE)
                => /\ participants'[namePrompt[u].lobbyId][u] = Null
                   /\ namePrompt[u].lobbyId \notin userHistory'[u]]_vars

\* The flag of an entry that stays is cleared by its owner's submitted name
\* only.
FlagStaysUntilAnswered ==
    [][\A u \in Users, s \in Sessions :
          (Flagged(u, s) /\ participants'[s][u] # Null
              /\ ~participants'[s][u].nameChangeRequested)
              => \E n \in NewNames : handleSubmitNewName(u, n, TRUE)]_vars

\* C19: a participant other than the creator who reads nameChangeRequested
\* on its own entry is prompted; what it then writes is a new name, which
\* sets the name and clears the flag on its entry, or its exit, which
\* deletes its entry and its history entry; the flag stays until then.
C19_PromptedUntilAnswered ==
    PromptedOnFlag /\ PromptOutcomes /\ FlagStaysUntilAnswered

\* ------------------------------------------------- joining with no session

\* C20: a join whose code has no code index entry, or whose indexed session
\* is not stored, reports NotFound, ends there, and writes nothing.
C20_UnknownCodeNotFound ==
    [][\A u \in Users :
         /\ \A c \in GeneratedCodes :
              (lobbyCodes[c] = NoSession /\ CodeRead(u, c))
                 => /\ result'[u] = "NotFound"
                    /\ joinOp'[u] = IdleJoin
                    /\ storeVars' = storeVars
         /\ (/\ joinOp[u].pc = "gotCode"
             /\ lobbies[joinOp[u].lobbyId] = Null
             /\ LobbyRead(u))
              => /\ result'[u] = "NotFound"
                 /\ joinOp'[u] = IdleJoin
                 /\ storeVars' = storeVars]_vars

\* A join was told NotFound with every request answered, while the code of
\* a deleted session is still indexed; the user has no entry anywhere.
C20_Witness ==
    \E u \in Users :
        /\ result[u] = "NotFound"
        /\ failures = 0
        /\ joinOp[u] = IdleJoin
        /\ \E c \in GeneratedCodes :
              lobbyCodes[c] # NoSession /\ lobbies[lobbyCodes[c]] = Null
        /\ \A s \in Sessions : participants[s][u] = Null /\ s \notin userHistory[u]

\* ------------------------------------------------- the writes of a join

\* C21: the writes of a join put the caller's name with isCreator false
\* under participants/{session}/{caller}, touch no other participant, and
\* then add the session to the caller's history only; when the participant
\* write fails the join reports failure and the history stays as it was.
C21_JoinWritesOwnEntries ==
    [][\A u \in Users, okPart, okHist \in BOOLEAN :
          JoinWrite(u, okPart, okHist) =>
              LET id == joinOp[u].lobbyId
              IN  IF okPart
                  THEN /\ participants'[id][u].name = joinOp[u].name
                       /\ ~participants'[id][u].isCreator
                       /\ participants' =
                             [participants EXCEPT ![id][u] = participants'[id][u]]
                       /\ userHistory' =
                             [userHistory EXCEPT
                                ![u] = IF okHist THEN @ \cup {id} ELSE @]
                       /\ lobbies' = lobbies /\ lobbyCodes' = lobbyCodes
                       /\ votes' = votes
                  ELSE /\ result'[u] = "JoinFailed"
                       /\ storeVars' = storeVars
                       /\ pendingNav'[u] = pendingNav[u]]_vars

\* A join by someone other than the creator wrote both entries.
C21_Witness ==
    \E u \in Users, s \in Sessions :
        /\ result[u] = "Joined"
        /\ participants[s][u] # Null
        /\ ~participants[s][u].isCreator
        /\ s \in userHistory[u]
        /\ lobbies[s] # Null /\ lobbies[s].creatorId # u

\* ----------------------------------------------- the writes of a create

CreateStep(u, c, okPush, okCode, okPart, okHist) ==
    HandleCreate(u, TypedName(u), c, okPush, okCode, okPart, okHist)

\* C22: a create pushes a session in 'waiting' with the caller as creator
\* and the generated code, then writes the code index entry, the caller's
\* participant entry with isCreator true and the caller's history entry,
\* each where its request is answered; a failed push reports an error and
\* writes nothing.
C22_CreateWritesFourEntries ==
    [][\A u \in Users, c \in GeneratedCodes,
          okPush, okCode, okPart, okHist \in BOOLEAN :
          CreateStep(u, c, okPush, okCode, okPart, okHist) =>
              LET id == nextKey
              IN  IF okPush
                  THEN /\ lobbies' =
                             [lobbies EXCEPT
                                ![id] = [creatorId |-> u,
                                         creatorName |-> TypedName(u),
                                         status |-> "waiting", code |-> c]]
                       /\ lobbyCodes' =
                             [lobbyCodes EXCEPT
                                ![c] = IF okCode THEN id ELSE @]
                       /\ participants' =
                             [participants EXCEPT
                                ![id][u] = IF okPart
                                           THEN Participant(TypedName(u), TRUE)
                                           ELSE @]
                       /\ userHistory' =
                             [userHistory EXCEPT
                                ![u] = IF okHist THEN @ \cup {id} ELSE @]
                       /\ votes' = votes
                  ELSE /\ result'[u] = "CreateFailed"
                       /\ storeVars' = storeVars
                       /\ pendingNav'[u] = pendingNav[u]]_vars

\* A create whose four requests were answered.
C22_Witness ==
    \E u \in Users, s \in Sessions :
        /\ result[u] = "Created"
        /\ lobbies[s] # Null
        /\ lobbies[s].creatorId = u /\ lobbies[s].status = "waiting"
        /\ lobbyCodes[lobbies[s].code] = s
        /\ participants[s][u] # Null /\ participants[s][u].isCreator
        /\ s \in userHistory[u]

\* A stored session that no code resolves to.
Orphan(s) ==
    lobbies[s] # Null /\ \A c \in GeneratedCodes : lobbyCodes[c] # s

\* C23: a create whose push is answered and whose code index write fails
\* stores the session, leaves the code index as it was, reports success and
\* sends the creator to the waiting room; nothing writes the entry later,
\* and a join with the code of such a session is told NotFound.
C23_FailedIndexOrphansSession ==
    [][/\ \A u \in Users, c \in GeneratedCodes, okPart, okHist \in BOOLEAN :
             CreateStep(u, c, TRUE, FALSE, okPart, okHist) =>
                 /\ lobbies'[nextKey] # Null
                 /\ lobbyCodes' = lobbyCodes
                 /\ result'[u] = "Created"
                 /\ pendingNav'[u] = [to |-> "waitingRoom", id |-> nextKey]
       /\ \A s \in Sessions :
             Orphan(s) =>
                 /\ lobbies'[s] # Null => \A c \in GeneratedCodes :
                                              lobbyCodes'[c] # s
                 /\ \A u \in Users :
                       CodeRead(u, lobbies[s].code)
                           => result'[u] = "NotFound"]_vars

\* The creator is in the waiting room of a session no code resolves to, and
\* a join with its code was told NotFound.
C23_Witness ==
    \E s \in Sessions, u \in Users :
        /\ Orphan(s)
        /\ screen[lobbies[s].creatorId] = "waitingRoom"
        /\ voteId[lobbies[s].creatorId] = s
        /\ u # lobbies[s].creatorId
        /\ result[u] = "NotFound"

\* ------------------------------------------------------ polls and unmount

PollingScreens == {"waitingRoom", "votingWaiting", "results", "ranking"}

\* C24: a read is sent only by the hook of the screen that is mounted, so
\* none is sent for a screen that has unmounted; a read that returns after
\* the screen that sent it unmounted changes no data of any screen and
\* starts nothing.
C24_UnmountedPollsIgnored ==
    /\ [](\A u \in Users : \A op \in polls[u] :
              op.mounted => screen[u] \in PollingScreens)
    /\ [][\A u \in Users :
             /\ Cardinality(polls'[u]) > Cardinality(polls[u])
                   => /\ screen[u] \in PollingScreens
                      /\ \A op \in polls'[u] \ polls[u] : op.mounted
             /\ \A op \in polls[u] :
                   (~op.mounted /\ PollLanded(u, op))
                       => /\ screenVars' = screenVars
                          /\ storeVars' = storeVars
                          /\ alert' = alert]_vars

\* A read sent by a screen since unmounted is in flight with a value the
\* screen now mounted does not hold.
C24_Witness ==
    \E u \in Users : \E op \in polls[u] :
        /\ ~op.mounted
        /\ op.value # Null
        /\ screen[u] \in PollingScreens
        /\ lobbyData[u] # op.value

\* ------------------------------------------------- the same status twice

Remaining(u) == votesRemaining(Object(participantsData[u]), Object(votesData[u]))

\* C27: on the voting-waiting screen votesSubmitted is the number of keys of
\* the votes last polled and votesRemaining the number of keys of the
\* participants last polled less votesSubmitted, and the creator's 'Go to
\* results' can be pressed whatever votesRemaining is.
C27_CountsDoNotBlockResults ==
    /\ [](\A u \in Users :
             screen[u] = "votingWaiting" /\ Idle(u) /\ isCreator(u)
                => ENABLED GoToResults(u))
    /\ [][\A u \in Users, ok \in BOOLEAN :
             /\ PollVotes(u, ok)
                   => /\ votesSubmitted(Object(votesData'[u])) =
                            Cardinality(Keys(readViaRest(
                                Subtree(votes[voteId[u]]), ok)))
                      /\ Remaining(u)' =
                            totalParticipants(Object(participantsData[u]))
                               - votesSubmitted(Object(votesData'[u]))
             /\ PollWaitingParticipants(u, ok)
                   => Remaining(u)' =
                         Cardinality(Keys(readViaRest(
                             Subtree(participants[voteId[u]]), ok)))
                            - votesSubmitted(Object(votesData[u]))]_vars

\* The creator has pressed 'Go to results' with a vote still missing.
C27_Witness ==
    /\ pendingNav[Host].to = "results"
    /\ screen[Host] = "votingWaiting"
    /\ Remaining(Host) > 0
    /\ votesSubmitted(Object(votesData[Host])) > 0
    /\ StatusOf(lobbies[voteId[Host]]) = "results"

\* ------------------------------------------------- reading out the votes

LastIndex(u) == IF votesArray[u] > 0 THEN votesArray[u] - 1 ELSE 0

\* C28: 'Go to ranking' can be pressed only by the creator on the results
\* screen with the vote index at the last vote (at 0 when there are none);
\* the votes are stepped through by ascending submittedAt; the index stays
\* in 0..max(0, totalVotes - 1), moves by one, and a step writes nothing to
\* the store.
C28_RankingAfterLastVote ==
    /\ [](\A u \in Users :
             /\ currentVoteIndex[u] \in 0..LastIndex(u)
             /\ ENABLED GoToRanking(u)
                   => /\ isCreator(u)
                      /\ screen[u] = "results"
                      /\ currentVoteIndex[u] = LastIndex(u))
    /\ [](LET array == votesArrayOf(heldData.votesData)
          IN /\ Len(array) = votesSubmitted(heldData.votesData)
             /\ heldData.votesData # Null
                   => Range(array) = Range(ObjectValues(heldData.votesData))
             /\ \A i, j \in DOMAIN array :
                   i < j => array[i].submittedAt <= array[j].submittedAt)
    /\ [][\A u \in Users :
             currentVoteIndex'[u] # currentVoteIndex[u]
                => /\ storeVars' = storeVars
                   /\ \/ currentVoteIndex'[u] = currentVoteIndex[u] + 1
                      \/ currentVoteIndex'[u] = currentVoteIndex[u] - 1
                      \/ currentVoteIndex'[u] = 0 /\ screen'[u] # screen[u]]_vars

\* The creator has pressed 'Go to ranking' at the last of several votes
\* that the store lists in another order than they were submitted in.
C28_Witness ==
    /\ pendingNav[Host].to = "ranking"
    /\ screen[Host] = "results"
    /\ votesArray[Host] >= 2
    /\ currentVoteIndex[Host] = votesArray[Host] - 1
    /\ ObjectValues(heldData.votesData) # votesArrayOf(heldData.votesData)

\* ------------------------------------------------- the prompt shown once

\* The participant answers the prompt: 'Exit Lobby', a new name that is
\* written, or the cancel of the modal.
Resolves(u, key) ==
    \/ \E okParticipant, okHistory \in BOOLEAN :
          /\ NameExitLobby(u, okParticipant, okHistory)
          /\ namePrompt[u].lobbyId = key
    \/ handleCancelNameChange(u) /\ voteId[u] = key
    \/ \E newName \in NewNames :
          handleSubmitNewName(u, newName, TRUE) /\ voteId[u] = key

\* C29: the 'Name Change Requested' alert of a lobby is raised on a device
\* only when the lobby's key is not in the shown-set, and raising it puts the
\* key there, so polls and effect re-runs do not raise it again; the key
\* leaves the set when the participant answers by exiting, by a new name
\* that is written or by cancelling, and in no other way.
C29_PromptShownOnce ==
    [][\A u \in Users, key \in Sessions :
          /\ (namePrompt'[u] # namePrompt[u]
                 /\ namePrompt'[u] = [kind |-> "alert", lobbyId |-> key])
                => /\ key \notin shownNameChangePromptKeys[u]
                   /\ key \in shownNameChangePromptKeys'[u]
          /\ Resolves(u, key) => key \notin shownNameChangePromptKeys'[u]
          /\ (key \in shownNameChangePromptKeys[u]
                 /\ key \notin shownNameChangePromptKeys'[u])
                => Resolves(u, key)]_vars

\* The guest has read the request on its own entry and answered the prompt:
\* nothing is on show and the key has left the set.
C29_Witness ==
    /\ screen[Guest] = "waitingRoom"
    /\ participantsData[Guest] # Null
    /\ participantsData[Guest][Guest] # Null
    /\ participantsData[Guest][Guest].nameChangeRequested
    /\ ~isCreator(Guest)
    /\ namePrompt[Guest] = NoPrompt
    /\ voteId[Guest] \notin shownNameChangePromptKeys[Guest]

\* ------------------------------------------- screens and the stored status

\* C30: a device shows the results screen only while the stored status of
\* its session is 'results' or 'ranking', and the creator's 'Go to results'
\* and 'Go to ranking' leave the stored status at the phase the creator's
\* device moves to, also when the update fails.
C30_NotAheadOfStoredStatus ==
    /\ [](\A u \in Users :
             screen[u] = "results"
                => StatusOf(lobbies[voteId[u]]) \in {"results", "ranking"})
    /\ [][\A u \in Users, ok \in BOOLEAN :
             /\ handleGoToResults(u, ok)
                   => StatusOf(lobbies'[voteId[u]]) \in {"results", "ranking"}
             /\ handleGoToRanking(u, ok)
                   => StatusOf(lobbies'[voteId[u]]) = "ranking"]_vars

\* ------------------------------------------------ the remaining votes

\* C31: on the voting-waiting screen votesRemaining is never negative,
\* whatever the order of the two polls, the submissions and the failed reads.
C31_RemainingNotNegative ==
    \A u \in Users : screen[u] = "votingWaiting" => Remaining(u) >= 0

\* ------------------------------------------------- 'Everyone has voted!'

EveryoneShown(u) ==
    /\ screen[u] = "votingWaiting"
    /\ everyoneHasVoted(Object(participantsData[u]), Object(votesData[u]))

AllStoredHaveVoted(s) ==
    /\ Keys(Subtree(participants[s])) # {}
    /\ Keys(Subtree(participants[s])) \subseteq Keys(Subtree(votes[s]))

\* C32: the voting-waiting screen shows 'Everyone has voted!' only when the
\* session has a participant and every stored participant has a stored vote,
\* and not before its participants poll has returned data.
C32_EveryoneMeansEveryone ==
    \A u \in Users :
        EveryoneShown(u)
           => /\ AllStoredHaveVoted(voteId[u])
              /\ participantsData[u] # Null

\* ------------------------------------------------ votes and participants

\* C33: every key under votes/{session} is a key under
\* participants/{session}: who was removed, has left or never joined has no
\* stored vote.
C33_VotersAreParticipants ==
    \A s \in Sessions :
        Keys(Subtree(votes[s])) \subseteq Keys(Subtree(participants[s]))

\* -------------------------------------------- joining a started session

\* C34: a participant entry is created only in a session whose stored
\* status is 'waiting', so that the participants are fixed from 'voting' on.
C34_NoEntryAfterWaiting ==
    [][\A s \in Sessions, u \in Users :
          (participants[s][u] = Null /\ participants'[s][u] # Null)
             => StatusOf(lobbies'[s]) = "waiting"]_vars

\* ------------------------------------------------- absent after removal

\* C35: an absent participants/{session}/{uid} is written again by that
\* user's joinSession and by no other action of that user's device. (The
\* creation of the session and the creator's own request are left aside.)
C35_RemovedStaysAbsent ==
    [][\A s \in Sessions, u \in Users :
          (participants[s][u] = Null /\ participants'[s][u] # Null)
             => \/ \E okPart, okHist \in BOOLEAN : JoinWrite(u, okPart, okHist)
                \/ lobbies[s] = Null
                \/ \E target \in Users : RequestNameChange(Host, target, TRUE)]_vars

\* C36: every entry under participants/{session} has a name, a joinedAt and
\* an isCreator field. (The entry that the flag PATCH makes on an absent
\* path holds the flag alone: it is the entry whose name is NoName.)
C36_EntriesComplete ==
    \A s \in Sessions, u \in Users :
        participants[s][u] # Null => participants[s][u].name # NoName

\* ------------------------------------------------ winners and rankings

\* The winner a ranking shows: the name of its first entry, or none.
FirstOf(ranking) ==
    IF ranking = <<>> THEN Null ELSE Winner(ranking[1].name)

\* C37: on the same votes the winners of the history card are the names of
\* the first entries of the MVP and loser rankings, ties included; with no
\* votes the card has no winner and the rankings are empty.
C37_WinnersHeadRankings ==
    \A i \in DOMAIN rendered.winners, j \in DOMAIN rendered.rankings :
        /\ rendered.winners[i].mvp = FirstOf(rendered.rankings[j].mvpRanking)
        /\ rendered.winners[i].loser = FirstOf(rendered.rankings[j].loserRanking)
        /\ heldData.votesData = Null
              => /\ rendered.winners[i] = [mvp |-> Null, loser |-> Null]
                 /\ rendered.rankings[j] = [mvpRanking |-> <<>>, loserRanking |-> <<>>]

\* Both computed on votes that tie two MVP names, the second of them the
\* array index "7", which the counts list first.
C37_Witness ==
    /\ Len(rendered.winners) >= 1
    /\ Len(rendered.rankings) >= 1
    /\ Len(rendered.rankings[1].mvpRanking) >= 2
    /\ rendered.rankings[1].mvpRanking[1].votes
          = rendered.rankings[1].mvpRanking[2].votes
    /\ rendered.winners[1].mvp = Winner("7")
    /\ MvpNames(heldData.votesData)[1] # "7"
\* ------------------------------------------------------ leaving a vote

\* The screens whose exit button is router.replace('/').
ExitScreens == {"waitingRoom", "voting", "votingWaiting"}

\* The button is pressed on one of these screens.
ExitPressed(u) == screen[u] \in ExitScreens /\ handleExit(u)

\* The home screen replaces the screen that was left.
ExitCompleted(u) ==
    /\ screen[u] \in ExitScreens
    /\ pendingNav[u] # NoNav
    /\ pendingNav[u].to = "home"
    /\ NavComplete(u)

\* C38: leaving by 'exit vote' in the waiting room or by the close button of
\* the voting and voting-waiting screens writes nothing: the session, its
\* participant entries, its votes and the user histories are as before.
C38_ExitWritesNothing ==
    [][\A u \in Users :
          (ExitPressed(u) \/ ExitCompleted(u))
             => /\ lobbies' = lobbies
                /\ lobbyCodes' = lobbyCodes
                /\ participants' = participants
                /\ votes' = votes
                /\ userHistory' = userHistory]_vars

\* The guest has voted, has left the voting-waiting screen and is home; its
\* entry, its vote and its history entry are stored.
C38_Witness ==
    /\ screen[Guest] = "home"
    /\ pendingNav[Guest] = NoNav
    /\ participants[1][Guest] # Null
    /\ votes[1][Guest] # Null
    /\ 1 \in userHistory[Guest]
    /\ StatusOf(lobbies[1]) = "voting"
\* ------------------------------------------------- following the phase

\* The client is in session s, on one of the given screens, while the stored
\* status of s is the given one.
Behind(u, s, screens, status) ==
    /\ voteId[u] = s
    /\ screen[u] \in screens
    /\ pendingNav[u] = NoNav
    /\ StatusOf(lobbies[s]) = status

\* C39: with polls that eventually succeed, a client on the voting-waiting
\* screen of a session whose stored status is 'results' eventually shows the
\* results (or the ranking, when the session has moved on), and a client on
\* the waiting-room, voting-waiting or results screen of a session whose
\* stored status is 'ranking' eventually shows the ranking.
C39_ReachesStoredPhase ==
    \A u \in Users, s \in Sessions :
        /\ Behind(u, s, {"votingWaiting"}, "results")
              ~> (voteId[u] = s /\ screen[u] \in {"results", "ranking"})
        /\ Behind(u, s, {"waitingRoom", "votingWaiting", "results"}, "ranking")
              ~> (voteId[u] = s /\ screen[u] = "ranking")
====
